---- MODULE Spec2Model ----
(***************************************************************************)
(* A model of ronf, a layered configuration resolver: the Value model, the *)
(* ordered Map, the five format adapters, ConfigBuilder and Config.        *)
(***************************************************************************)
EXTENDS Integers, Sequences, FiniteSets, TLC

(***************************************************************************)
(* Bounds of the model.                                                    *)
(***************************************************************************)
MaxFiles == 2
MaxSets == 2
MaxLoads == 1

(***************************************************************************)
(* value.rs: Value.  A Float is held in halves (h = 3 is 1.5), so that the *)
(* fractional part of a float is h % 2.                                    *)
(***************************************************************************)
VNone == [tag |-> "None"]
VBool(b) == [tag |-> "Bool", b |-> b]
VInt(i) == [tag |-> "Int", i |-> i]
VFloat(h) == [tag |-> "Float", h |-> h]
VString(s) == [tag |-> "String", s |-> s]
VArray(a) == [tag |-> "Array", a |-> a]
VTable(t) == [tag |-> "Table", t |-> t]

is_table(v) == v.tag = "Table"

(***************************************************************************)
(* value.rs: Map<K, V> (IndexMap): a sequence of entries with distinct     *)
(* keys, in insertion order.                                               *)
(***************************************************************************)
Entry(k, v) == [k |-> k, v |-> v]
MapNew == << >>
MapKeys(m) == {m[i].k : i \in DOMAIN m}
contains_key(m, k) == k \in MapKeys(m)
IndexOf(m, k) == CHOOSE i \in DOMAIN m : m[i].k = k

OptNone == [some |-> FALSE]
OptSome(v) == [some |-> TRUE, v |-> v]

\* Map::get
MapGet(m, k) == IF contains_key(m, k) THEN OptSome(m[IndexOf(m, k)].v) ELSE OptNone

\* insert that moves an existing key to the end
MapInsertAtEnd(m, k, v) ==
    Append(SelectSeq(m, LAMBDA entry : entry.k # k), Entry(k, v))

\* Map::insert: an existing key keeps its position, a new key is appended
MapInsert(m, k, v) ==
    IF contains_key(m, k)
    THEN [m EXCEPT ![IndexOf(m, k)] = Entry(k, v)]
    ELSE Append(m, Entry(k, v))

RECURSIVE MapExtendDeep(_, _)
\* extend that merges a table into the table the key already holds
MapExtendDeep(m, other) ==
    IF other = << >> THEN m
    ELSE LET k == Head(other).k
             v == Head(other).v
             merged == IF contains_key(m, k) /\ MapGet(m, k).v.tag = "Table" /\ v.tag = "Table"
                       THEN [tag |-> "Table", t |-> MapExtendDeep(MapGet(m, k).v.t, v.t)]
                       ELSE v
         IN  MapExtendDeep(MapInsert(m, k, merged), Tail(other))

RECURSIVE MapExtend(_, _)
\* Map::extend: insert every entry of other, in other's order
MapExtend(m, other) ==
    IF other = << >> THEN m
    ELSE MapExtend(MapInsert(m, Head(other).k, Head(other).v), Tail(other))

\* collecting (key, value) pairs into a Map
MapFromPairs(pairs) == MapExtend(MapNew, pairs)

\* the keys of a Map in iteration order
MapKeySeq(m) == [i \in DOMAIN m |-> m[i].k]

(***************************************************************************)
(* Results of fallible calls.  A panic is an outcome of its own: the call  *)
(* returns neither Ok nor Err.  Error messages are the pieces that the     *)
(* code formats into the message, in order.                                *)
(***************************************************************************)
Ok(x) == [r |-> "ok", val |-> x]
Err(msg) == [r |-> "err", msg |-> msg]
Panic == [r |-> "panic"]

(***************************************************************************)
(* Contents of a File.  A text is held as what the parser of its format    *)
(* makes of it: the empty string, a text the parser rejects, or the tree   *)
(* the parser returns (serde_json::Value, toml::Table, yaml_rust2::Yaml,   *)
(* ron::Value, ini::Ini).                                                  *)
(***************************************************************************)
EmptyContent == [c |-> "empty"]
Malformed == [c |-> "malformed"]
Doc(root) == [c |-> "doc", root |-> root]

\* file.rs: File
File(path, format, content) == [path |-> path, format |-> format, content |-> content]

\* file.rs: FileFormat
FileFormat == {"Ini", "Json", "Yaml", "Toml", "Ron"}

(***************************************************************************)
(* Numeric literals of a text: the value in halves and whether the text    *)
(* has a fractional part or exponent (so that it does not parse as i64).   *)
(***************************************************************************)
Lit(h, point) == [h |-> h, point |-> point]
\* f64::to_string: 1.0 prints as "1", 1.5 as "1.5"
f64_to_string(h) == Lit(h, h % 2 # 0)
\* str::parse::<i64>
parse_i64(lit) == IF lit.point THEN OptNone ELSE OptSome(lit.h \div 2)
\* str::parse::<f64>
parse_f64(lit) == lit.h

(***************************************************************************)
(* format/json.rs                                                          *)
(***************************************************************************)
JNull == [j |-> "Null"]
JBool(b) == [j |-> "Bool", b |-> b]
JInt(i) == [j |-> "Number", n |-> "int", i |-> i]
JFloat(h) == [j |-> "Number", n |-> "float", h |-> h]
JString(s) == [j |-> "String", s |-> s]
JArray(a) == [j |-> "Array", a |-> a]
JObject(o) == [j |-> "Object", o |-> o]

RECURSIVE from_json_value(_)
from_json_value(value) ==
    CASE value.j = "Null" -> VNone
      [] value.j = "Bool" -> VBool(value.b)
      [] value.j = "Number" ->
            IF value.n = "int" THEN VInt(value.i) ELSE VFloat(value.h)
      [] value.j = "String" -> VString(value.s)
      [] value.j = "Array" ->
            VArray([i \in DOMAIN value.a |-> from_json_value(value.a[i])])
      [] value.j = "Object" ->
            VTable(MapFromPairs([i \in DOMAIN value.o |->
                Entry(value.o[i].k, from_json_value(value.o[i].v))]))

json_deserialize(content) ==
    CASE content.c = "doc" ->
            IF content.root.j = "Object"
            THEN Ok(MapFromPairs([i \in DOMAIN content.root.o |->
                    Entry(content.root.o[i].k, from_json_value(content.root.o[i].v))]))
            ELSE Ok(MapNew)
      [] OTHER -> Err(<<"Failed to parse JSON: ", "syntax error">>)

RECURSIVE to_json_value_lossy(_)
\* to_json_value_single writing every number as an integer
to_json_value_lossy(value) ==
    CASE value.tag = "None" -> JNull
      [] value.tag = "Bool" -> JBool(value.b)
      [] value.tag = "Int" -> JInt(value.i)
      [] value.tag = "Float" -> JInt(value.h \div 2)
      [] value.tag = "String" -> JString(value.s)
      [] value.tag = "Array" ->
            JArray([i \in DOMAIN value.a |-> to_json_value_lossy(value.a[i])])
      [] value.tag = "Table" ->
            JObject([i \in DOMAIN value.t |->
                Entry(value.t[i].k, to_json_value_lossy(value.t[i].v))])

RECURSIVE to_json_value_single(_)
to_json_value_single(value) ==
    CASE value.tag = "None" -> JNull
      [] value.tag = "Bool" -> JBool(value.b)
      [] value.tag = "Int" -> JInt(value.i)
      [] value.tag = "Float" -> JFloat(value.h)
      [] value.tag = "String" -> JString(value.s)
      [] value.tag = "Array" ->
            JArray([i \in DOMAIN value.a |-> to_json_value_single(value.a[i])])
      [] value.tag = "Table" ->
            JObject([i \in DOMAIN value.t |->
                Entry(value.t[i].k, to_json_value_single(value.t[i].v))])

to_json_value(value) ==
    JObject([i \in DOMAIN value |-> Entry(value[i].k, to_json_value_single(value[i].v))])

\* serialize returns its text (Ok) or panics
json_serialize(value) == Ok(Doc(to_json_value(value)))

(***************************************************************************)
(* format/yaml.rs.  The content "multi" is a text with several documents.  *)
(***************************************************************************)
YNull == [y |-> "Null"]
YBoolean(b) == [y |-> "Boolean", b |-> b]
YInteger(i) == [y |-> "Integer", i |-> i]
YReal(lit) == [y |-> "Real", lit |-> lit]
YString(s) == [y |-> "String", s |-> s]
YArray(a) == [y |-> "Array", a |-> a]
YHash(o) == [y |-> "Hash", o |-> o]
YBadValue == [y |-> "BadValue"]
MultiDoc == [c |-> "multi"]

RECURSIVE from_yaml_value_panics(_)
\* from_yaml_value panics on a nested mapping with a key that is not a string
\* (as_str().unwrap())
from_yaml_value_panics(value) ==
    CASE value.y = "Array" ->
            \E i \in DOMAIN value.a : from_yaml_value_panics(value.a[i])
      [] value.y = "Hash" ->
            \E i \in DOMAIN value.o :
                \/ value.o[i].k.y # "String"
                \/ from_yaml_value_panics(value.o[i].v)
      [] OTHER -> FALSE

RECURSIVE from_yaml_value(_)
from_yaml_value(value) ==
    CASE value.y = "Null" -> VNone
      [] value.y = "Boolean" -> VBool(value.b)
      [] value.y = "Integer" -> VInt(value.i)
      [] value.y = "Real" ->
            IF parse_i64(value.lit).some
            THEN VInt(parse_i64(value.lit).v)
            ELSE VFloat(parse_f64(value.lit))
      [] value.y = "String" -> VString(value.s)
      [] value.y = "Array" ->
            VArray([i \in DOMAIN value.a |-> from_yaml_value(value.a[i])])
      [] value.y = "Hash" ->
            VTable(MapFromPairs([i \in DOMAIN value.o |->
                Entry(value.o[i].k.s, from_yaml_value(value.o[i].v))]))
      [] OTHER -> VNone

RECURSIVE yaml_root_entries(_, _)
\* the loop of deserialize over the entries of the root mapping
yaml_root_entries(map, hash) ==
    IF hash = << >> THEN Ok(map)
    ELSE IF Head(hash).k.y # "String" THEN Err(<<"YAML keys must be strings">>)
    ELSE IF from_yaml_value_panics(Head(hash).v) THEN Panic
    ELSE yaml_root_entries(
            MapInsert(map, Head(hash).k.s, from_yaml_value(Head(hash).v)), Tail(hash))

yaml_deserialize(content) ==
    CASE content.c = "malformed" -> Err(<<"Failed to parse YAML: ", "scan error">>)
      [] content.c = "multi" -> Err(<<"Expected a single YAML document, but found ", "2">>)
      [] content.c = "empty" -> Ok(MapNew)
      [] content.c = "doc" ->
            IF content.root.y = "Hash"
            THEN yaml_root_entries(MapNew, content.root.o)
            ELSE Err(<<"YAML root must be a mapping">>)

RECURSIVE to_yaml_value_single(_)
to_yaml_value_single(value) ==
    CASE value.tag = "None" -> YNull
      [] value.tag = "Bool" -> YBoolean(value.b)
      [] value.tag = "Int" -> YInteger(value.i)
      [] value.tag = "Float" -> YReal(f64_to_string(value.h))
      [] value.tag = "String" -> YString(value.s)
      [] value.tag = "Array" ->
            YArray([i \in DOMAIN value.a |-> to_yaml_value_single(value.a[i])])
      [] value.tag = "Table" ->
            YHash([i \in DOMAIN value.t |->
                Entry(YString(value.t[i].k), to_yaml_value_single(value.t[i].v))])

to_yaml_value(value) ==
    YHash([i \in DOMAIN value |->
        Entry(YString(value[i].k), to_yaml_value_single(value[i].v))])

RECURSIVE yaml_dump(_)
\* YamlEmitter::dump: the text written for a tree, held as the tree that the
\* loader reads back from it.  A Real is written as its bare text, and the
\* loader reads a bare number without fractional part as an Integer.
yaml_dump(node) ==
    CASE node.y = "Real" ->
            IF parse_i64(node.lit).some
            THEN YInteger(parse_i64(node.lit).v)
            ELSE node
      [] node.y = "Array" -> YArray([i \in DOMAIN node.a |-> yaml_dump(node.a[i])])
      [] node.y = "Hash" ->
            YHash([i \in DOMAIN node.o |->
                Entry(yaml_dump(node.o[i].k), yaml_dump(node.o[i].v))])
      [] OTHER -> node

yaml_serialize(value) == Ok(Doc(yaml_dump(to_yaml_value(value))))

(***************************************************************************)
(* format/toml.rs                                                          *)
(***************************************************************************)
TString(s) == [t |-> "String", s |-> s]
TInteger(i) == [t |-> "Integer", i |-> i]
TFloat(h) == [t |-> "Float", h |-> h]
TBoolean(b) == [t |-> "Boolean", b |-> b]
TDatetime(s) == [t |-> "Datetime", s |-> s]
TArray(a) == [t |-> "Array", a |-> a]
TTable(o) == [t |-> "Table", o |-> o]

RECURSIVE from_toml_value(_)
from_toml_value(value) ==
    CASE value.t = "String" -> VString(value.s)
      [] value.t = "Integer" -> VInt(value.i)
      [] value.t = "Float" -> VFloat(value.h)
      [] value.t = "Boolean" -> VBool(value.b)
      [] value.t = "Datetime" -> VString(value.s)
      [] value.t = "Array" ->
            VArray([i \in DOMAIN value.a |-> from_toml_value(value.a[i])])
      [] value.t = "Table" ->
            VTable(MapFromPairs([i \in DOMAIN value.o |->
                Entry(value.o[i].k, from_toml_value(value.o[i].v))]))

\* the empty string parses as the empty table
toml_deserialize(content) ==
    CASE content.c = "empty" -> Ok(MapNew)
      [] content.c = "doc" ->
            Ok(MapFromPairs([i \in DOMAIN content.root.o |->
                Entry(content.root.o[i].k, from_toml_value(content.root.o[i].v))]))
      [] OTHER -> Err(<<"TOML parse error">>)

RECURSIVE to_toml_value_panics(_)
\* to_toml_value panics on Value::None, at any depth
to_toml_value_panics(value) ==
    CASE value.tag = "None" -> TRUE
      [] value.tag = "Array" ->
            \E i \in DOMAIN value.a : to_toml_value_panics(value.a[i])
      [] value.tag = "Table" ->
            \E i \in DOMAIN value.t : to_toml_value_panics(value.t[i].v)
      [] OTHER -> FALSE

RECURSIVE to_toml_value(_)
to_toml_value(value) ==
    CASE value.tag = "String" -> TString(value.s)
      [] value.tag = "Int" -> TInteger(value.i)
      [] value.tag = "Float" -> TFloat(value.h)
      [] value.tag = "Bool" -> TBoolean(value.b)
      [] value.tag = "Array" ->
            TArray([i \in DOMAIN value.a |-> to_toml_value(value.a[i])])
      [] value.tag = "Table" ->
            TTable([i \in DOMAIN value.t |->
                Entry(value.t[i].k, to_toml_value(value.t[i].v))])

\* the text of the empty table is the empty string
toml_serialize(value) ==
    IF \E i \in DOMAIN value : to_toml_value_panics(value[i].v) THEN Panic
    ELSE IF value = << >> THEN Ok(EmptyContent)
    ELSE Ok(Doc(TTable([i \in DOMAIN value |->
            Entry(value[i].k, to_toml_value(value[i].v))])))

(***************************************************************************)
(* format/ron.rs.  A ron::Number is held in halves, as into_f64 reads it.  *)
(***************************************************************************)
RChar(s) == [r |-> "Char", s |-> s]
RString(s) == [r |-> "String", s |-> s]
RBytes(s) == [r |-> "Bytes", s |-> s]
RNumber(h) == [r |-> "Number", h |-> h]
ROption(o) == [r |-> "Option", o |-> o]
RBool(b) == [r |-> "Bool", b |-> b]
RSeq(a) == [r |-> "Seq", a |-> a]
RMap(o) == [r |-> "Map", o |-> o]
RUnit == [r |-> "Unit"]

\* check_key panics unless the key is a string
check_key_panics(key) == key.r # "String"
check_key(key) == key.s

RECURSIVE from_ron_value_panics(_)
from_ron_value_panics(value) ==
    CASE value.r = "Option" -> value.o.some /\ from_ron_value_panics(value.o.v)
      [] value.r = "Seq" ->
            \E i \in DOMAIN value.a : from_ron_value_panics(value.a[i])
      [] value.r = "Map" ->
            \E i \in DOMAIN value.o :
                \/ check_key_panics(value.o[i].k)
                \/ from_ron_value_panics(value.o[i].v)
      [] OTHER -> FALSE

RECURSIVE from_ron_value(_)
from_ron_value(value) ==
    CASE value.r = "Char" -> VString(value.s)
      [] value.r = "String" -> VString(value.s)
      [] value.r = "Bytes" -> VString(value.s)
      [] value.r = "Number" ->
            IF value.h % 2 = 0 THEN VInt(value.h \div 2) ELSE VFloat(value.h)
      [] value.r = "Option" ->
            IF value.o.some THEN from_ron_value(value.o.v) ELSE VNone
      [] value.r = "Bool" -> VBool(value.b)
      [] value.r = "Seq" ->
            VArray([i \in DOMAIN value.a |-> from_ron_value(value.a[i])])
      [] value.r = "Map" ->
            VTable(MapFromPairs([i \in DOMAIN value.o |->
                Entry(check_key(value.o[i].k), from_ron_value(value.o[i].v))]))
      [] value.r = "Unit" -> VNone

ron_deserialize(content) ==
    CASE content.c = "doc" ->
            IF content.root.r = "Map"
            THEN IF from_ron_value_panics(content.root)
                 THEN Panic
                 ELSE Ok(MapFromPairs([i \in DOMAIN content.root.o |->
                        Entry(check_key(content.root.o[i].k),
                              from_ron_value(content.root.o[i].v))]))
            ELSE Panic
      [] OTHER -> Err(<<"RON parse error">>)

RECURSIVE to_ron_value_panics(_)
\* to_ron_value panics on Value::None, at any depth
to_ron_value_panics(value) ==
    CASE value.tag = "None" -> TRUE
      [] value.tag = "Array" ->
            \E i \in DOMAIN value.a : to_ron_value_panics(value.a[i])
      [] value.tag = "Table" ->
            \E i \in DOMAIN value.t : to_ron_value_panics(value.t[i].v)
      [] OTHER -> FALSE

RECURSIVE to_ron_value(_)
to_ron_value(value) ==
    CASE value.tag = "String" -> RString(value.s)
      [] value.tag = "Int" -> RNumber(2 * value.i)
      [] value.tag = "Float" -> RNumber(value.h)
      [] value.tag = "Bool" -> RBool(value.b)
      [] value.tag = "Array" ->
            RSeq([i \in DOMAIN value.a |-> to_ron_value(value.a[i])])
      [] value.tag = "Table" ->
            RMap([i \in DOMAIN value.t |->
                Entry(RString(value.t[i].k), to_ron_value(value.t[i].v))])

ron_serialize(value) ==
    IF \E i \in DOMAIN value : to_ron_value_panics(value[i].v) THEN Panic
    ELSE Ok(Doc(RMap([i \in DOMAIN value |->
            Entry(RString(value[i].k), to_ron_value(value[i].v))])))

(***************************************************************************)
(* format/ini.rs.  An Ini is a sequence of sections, each with an optional *)
(* name and its properties; the empty string is an Ini with no property.   *)
(***************************************************************************)
IniSection(sec, props) == [sec |-> sec, props |-> props]

RECURSIVE ini_sections(_, _)
ini_sections(map, ini) ==
    IF ini = << >> THEN map
    ELSE LET prop == Head(ini).props
             strings == [i \in DOMAIN prop |-> Entry(prop[i].k, VString(prop[i].v))]
         IN  IF Head(ini).sec.some
             THEN ini_sections(
                    MapInsert(map, Head(ini).sec.v, VTable(MapFromPairs(strings))),
                    Tail(ini))
             ELSE ini_sections(MapExtend(map, strings), Tail(ini))

ini_deserialize(content) ==
    CASE content.c = "empty" -> Ok(MapNew)
      [] content.c = "doc" -> Ok(ini_sections(MapNew, content.root))
      [] OTHER -> Err(<<"INI parse error">>)

(***************************************************************************)
(* file.rs: File::parse                                                    *)
(***************************************************************************)
parse(file) ==
    CASE file.format = "Ini" -> ini_deserialize(file.content)
      [] file.format = "Json" -> json_deserialize(file.content)
      [] file.format = "Yaml" -> yaml_deserialize(file.content)
      [] file.format = "Toml" -> toml_deserialize(file.content)
      [] file.format = "Ron" -> ron_deserialize(file.content)

(***************************************************************************)
(* config.rs: save_map and load_map                                        *)
(***************************************************************************)
\* config.rs: the error of a format whose feature is not compiled in
ini_not_enabled == Err(<<"INI format feature is not enabled">>)

\* save_map of a build without the feature "ini"
save_map_without_ini(map, format) ==
    CASE format = "Ini" -> ini_not_enabled
      [] format = "Json" -> json_serialize(map)
      [] format = "Yaml" -> yaml_serialize(map)
      [] format = "Toml" -> toml_serialize(map)
      [] format = "Ron" -> ron_serialize(map)

save_map(map, format) ==
    CASE format = "Ini" -> Err(<<"Serializing INI format is not supported">>)
      [] format = "Json" -> json_serialize(map)
      [] format = "Yaml" -> yaml_serialize(map)
      [] format = "Toml" -> toml_serialize(map)
      [] format = "Ron" -> ron_serialize(map)

load_map(save, format) ==
    IF save.c = "empty" THEN Err(<<"Empty content">>)
    ELSE CASE format = "Ini" -> ini_deserialize(save)
           [] format = "Json" -> json_deserialize(save)
           [] format = "Yaml" -> yaml_deserialize(save)
           [] format = "Toml" -> toml_deserialize(save)
           [] format = "Ron" -> ron_deserialize(save)

(***************************************************************************)
(* The environment.  The name of a variable is a sequence of characters.   *)
(***************************************************************************)
EnvVar(name, value) == [name |-> name, value |-> value]

UpperCase == <<
    "A", "B", "C", "D", "E", "F", "G", "H", "I", "J", "K", "L", "M",
    "N", "O", "P", "Q", "R", "S", "T", "U", "V", "W", "X", "Y", "Z">>
LowerCase == <<
    "a", "b", "c", "d", "e", "f", "g", "h", "i", "j", "k", "l", "m",
    "n", "o", "p", "q", "r", "s", "t", "u", "v", "w", "x", "y", "z">>

\* char::to_lowercase
char_to_lowercase(c) ==
    IF \E i \in DOMAIN UpperCase : UpperCase[i] = c
    THEN LowerCase[CHOOSE i \in DOMAIN UpperCase : UpperCase[i] = c]
    ELSE c

\* str::to_lowercase
to_lowercase(name) == [i \in DOMAIN name |-> char_to_lowercase(name[i])]

RECURSIVE split(_, _, _)
\* str::split('_'): the segments between underscores, empty ones included;
\* cur is the segment being read
split(name, parts, cur) ==
    IF name = << >> THEN Append(parts, cur)
    ELSE IF Head(name) = "_" THEN split(Tail(name), Append(parts, cur), << >>)
    ELSE split(Tail(name), parts, Append(cur, Head(name)))

\* Vec::retain(|part| !part.is_empty())
retain_non_empty(parts) == SelectSeq(parts, LAMBDA part : part # << >>)

RECURSIVE chars_to_string(_)
\* the string spelled by a sequence of characters
chars_to_string(chars) ==
    IF chars = << >> THEN "" ELSE Head(chars) \o chars_to_string(Tail(chars))

\* config.rs: get_env_vars, from the variables std::env::vars() yields
get_env_vars(vars) ==
    MapFromPairs([i \in DOMAIN vars |-> Entry(vars[i].name, VString(vars[i].value))])

(***************************************************************************)
(* config.rs: ConfigBuilder::build                                         *)
(***************************************************************************)
RECURSIVE parse_files_replacing(_, _)
\* the loop over self.files assigning the parsed map instead of extending
parse_files_replacing(defs, fs) ==
    IF fs = << >> THEN Ok(defs)
    ELSE LET parsed == parse(Head(fs))
         IN  CASE parsed.r = "ok" -> parse_files_replacing(parsed.val, Tail(fs))
               [] parsed.r = "err" ->
                    Err(<<"Failed to parse file ", Head(fs).path, ": ">> \o parsed.msg)
               [] OTHER -> Panic

RECURSIVE parse_files(_, _)
\* the loop over self.files; it ends at the first file that does not parse
parse_files(defs, fs) ==
    IF fs = << >> THEN Ok(defs)
    ELSE LET parsed == parse(Head(fs))
         IN  CASE parsed.r = "ok" -> parse_files(MapExtend(defs, parsed.val), Tail(fs))
               [] parsed.r = "err" ->
                    Err(<<"Failed to parse file ", Head(fs).path, ": ">> \o parsed.msg)
               [] OTHER -> Panic

\* the loop over changes without the contains_key test
apply_changes_unrestricted(vals, chs) == MapExtend(vals, chs)

RECURSIVE apply_changes(_, _)
\* the loop over changes: a key is overwritten only if values has it
apply_changes(vals, chs) ==
    IF chs = << >> THEN vals
    ELSE apply_changes(
            IF contains_key(vals, Head(chs).k)
            THEN MapInsert(vals, Head(chs).k, Head(chs).v)
            ELSE vals,
            Tail(chs))

RECURSIVE apply_env_whole_name(_, _)
\* the loop over env_vars looking up the whole lower-cased name
apply_env_whole_name(vals, env_vars) ==
    IF env_vars = << >> THEN vals
    ELSE LET key0 == chars_to_string(to_lowercase(Head(env_vars).k))
         IN  IF ~MapGet(vals, key0).some THEN apply_env_whole_name(vals, Tail(env_vars))
             ELSE IF ~is_table(MapGet(vals, key0).v)
                  THEN apply_env_whole_name(
                            MapInsert(vals, key0, Head(env_vars).v), Tail(env_vars))
                  ELSE apply_env_whole_name(vals, Tail(env_vars))

RECURSIVE apply_env_any_variant(_, _)
\* the loop over env_vars without the is_table test
apply_env_any_variant(vals, env_vars) ==
    IF env_vars = << >> THEN vals
    ELSE LET key_parts == retain_non_empty(split(to_lowercase(Head(env_vars).k), << >>, << >>))
             key0 == chars_to_string(key_parts[1])
         IN  IF key_parts = << >> THEN apply_env_any_variant(vals, Tail(env_vars))
             ELSE IF ~MapGet(vals, key0).some THEN apply_env_any_variant(vals, Tail(env_vars))
             ELSE apply_env_any_variant(
                        MapInsert(vals, key0, Head(env_vars).v), Tail(env_vars))

RECURSIVE apply_env_first_of_split(_, _)
\* the loop over env_vars without key_parts.retain: the key is the first
\* segment of the split, empty or not
apply_env_first_of_split(vals, env_vars) ==
    IF env_vars = << >> THEN vals
    ELSE LET key_parts == split(to_lowercase(Head(env_vars).k), << >>, << >>)
             key0 == chars_to_string(key_parts[1])
         IN  IF ~MapGet(vals, key0).some THEN apply_env_first_of_split(vals, Tail(env_vars))
             ELSE IF ~is_table(MapGet(vals, key0).v)
                  THEN apply_env_first_of_split(
                            MapInsert(vals, key0, Head(env_vars).v), Tail(env_vars))
                  ELSE apply_env_first_of_split(vals, Tail(env_vars))

RECURSIVE apply_env(_, _)
\* the loop over env_vars
apply_env(vals, env_vars) ==
    IF env_vars = << >> THEN vals
    ELSE LET key_parts == retain_non_empty(split(to_lowercase(Head(env_vars).k), << >>, << >>))
             key0 == chars_to_string(key_parts[1])
         IN  IF key_parts = << >> THEN apply_env(vals, Tail(env_vars))
             ELSE IF ~MapGet(vals, key0).some THEN apply_env(vals, Tail(env_vars))
             ELSE IF ~is_table(MapGet(vals, key0).v)
                  THEN apply_env(MapInsert(vals, key0, Head(env_vars).v), Tail(env_vars))
                  ELSE apply_env(vals, Tail(env_vars))

\* config.rs: Config
Config(d, c, v) == [defaults |-> d, changes |-> c, values |-> v]

\* build with the two overlays in the other order: the environment first,
\* the changes after it
build_env_first(fs, chs, vars) ==
    LET parsed == parse_files(MapNew, fs)
    IN  IF parsed.r # "ok" THEN parsed
        ELSE Ok(Config(parsed.val, MapNew,
                apply_changes(apply_env(parsed.val, get_env_vars(vars)), chs)))

\* build handing the override document to the Config as its changes
build_keeping_changes(fs, chs, vars) ==
    LET parsed == parse_files(MapNew, fs)
    IN  IF parsed.r # "ok" THEN parsed
        ELSE Ok(Config(parsed.val, chs,
                apply_env(apply_changes(parsed.val, chs), get_env_vars(vars))))

build(fs, chs, vars) ==
    LET parsed == parse_files(MapNew, fs)
    IN  IF parsed.r # "ok" THEN parsed
        ELSE Ok(Config(parsed.val, MapNew,
                apply_env(apply_changes(parsed.val, chs), get_env_vars(vars))))

(***************************************************************************)
(* config.rs: Config::get, set, list, load, save, as functions of a Config *)
(***************************************************************************)
get(config, key) == MapGet(config.values, key)

\* set with the rule of construction: only a key that values has is written
set_restrictive(config, key, value) ==
    Config(config.defaults,
           MapInsert(config.changes, key, value),
           IF contains_key(config.values, key)
           THEN MapInsert(config.values, key, value)
           ELSE config.values)

\* set that writes defaults as well
set_through_defaults(config, key, value) ==
    Config(MapInsert(config.defaults, key, value),
           MapInsert(config.changes, key, value),
           MapInsert(config.values, key, value))

set(config, key, value) ==
    Config(config.defaults,
           MapInsert(config.changes, key, value),
           MapInsert(config.values, key, value))

list(config) == MapKeySeq(config.values)

\* load writing every key of changes into values
load_unrestricted(config, file) ==
    LET parsed == parse(file)
    IN  CASE parsed.r = "ok" ->
                LET chs == MapExtend(config.changes, parsed.val)
                IN  Ok(Config(config.defaults, chs, MapExtend(config.defaults, chs)))
          [] parsed.r = "err" ->
                Err(<<"Failed to parse file ", file.path, ": ">> \o parsed.msg)
          [] OTHER -> Panic

\* load starting from the readable state instead of defaults
load_keeping_values(config, file) ==
    LET parsed == parse(file)
    IN  CASE parsed.r = "ok" ->
                LET chs == MapExtend(config.changes, parsed.val)
                IN  Ok(Config(config.defaults, chs, apply_changes(config.values, chs)))
          [] parsed.r = "err" ->
                Err(<<"Failed to parse file ", file.path, ": ">> \o parsed.msg)
          [] OTHER -> Panic

\* load dropping from changes the keys that defaults lacks
load_pruning(config, file) ==
    LET parsed == parse(file)
    IN  CASE parsed.r = "ok" ->
                LET chs == SelectSeq(MapExtend(config.changes, parsed.val),
                                LAMBDA entry : contains_key(config.defaults, entry.k))
                IN  Ok(Config(config.defaults, chs, apply_changes(config.defaults, chs)))
          [] parsed.r = "err" ->
                Err(<<"Failed to parse file ", file.path, ": ">> \o parsed.msg)
          [] OTHER -> Panic

\* load assigning the parsed map to changes instead of extending them
load_replacing(config, file) ==
    LET parsed == parse(file)
    IN  CASE parsed.r = "ok" ->
                Ok(Config(config.defaults, parsed.val,
                          apply_changes(config.defaults, parsed.val)))
          [] parsed.r = "err" ->
                Err(<<"Failed to parse file ", file.path, ": ">> \o parsed.msg)
          [] OTHER -> Panic

\* load making values of the changes alone: the keys of defaults that
\* changes holds, without the defaults that no change names
load_only_changed(config, file) ==
    LET parsed == parse(file)
    IN  CASE parsed.r = "ok" ->
                LET chs == MapExtend(config.changes, parsed.val)
                IN  Ok(Config(config.defaults, chs,
                        SelectSeq(chs, LAMBDA entry : contains_key(config.defaults, entry.k))))
          [] parsed.r = "err" ->
                Err(<<"Failed to parse file ", file.path, ": ">> \o parsed.msg)
          [] OTHER -> Panic

load(config, file) ==
    LET parsed == parse(file)
    IN  CASE parsed.r = "ok" ->
                LET chs == MapExtend(config.changes, parsed.val)
                IN  Ok(Config(config.defaults, chs, apply_changes(config.defaults, chs)))
          [] parsed.r = "err" ->
                Err(<<"Failed to parse file ", file.path, ": ">> \o parsed.msg)
          [] OTHER -> Panic

\* save writing the readable state
save_values(config, format) == save_map(config.values, format)

save(config, format) == save_map(config.changes, format)

(***************************************************************************)
(* value.rs: the coercions, impl TryInto<_> for Value.  In the coercions a *)
(* String is the sequence of its characters, an i64 is a sign and a        *)
(* magnitude in full width, and an f64 is a sign and a magnitude counted   *)
(* in halves, or NaN, or an infinity.  A magnitude is the sequence of its  *)
(* limbs to the base 1000, most significant first, without leading zero.   *)
(***************************************************************************)
Base == 1000

\* quotient and remainder of a magnitude by a small divisor
LongDiv(limbs, d) ==
    LET n == Len(limbs)
        rem[i \in 0..n] == IF i = 0 THEN 0 ELSE (rem[i - 1] * Base + limbs[i]) % d
        quo == [i \in 1..n |-> (rem[i - 1] * Base + limbs[i]) \div d]
        lead == IF \E i \in 1..n : quo[i] # 0
                THEN CHOOSE i \in 1..n : quo[i] # 0 /\ \A j \in 1..(i - 1) : quo[j] = 0
                ELSE n + 1
    IN  [q |-> SubSeq(quo, lead, n), r |-> rem[n]]

\* limbs * m + a, for small m and a
MulAdd(limbs, m, a) ==
    LET n == Len(limbs)
        \* carry[i]: the carry out of the i limbs at the right
        carry[i \in 0..n] ==
            IF i = 0 THEN a ELSE (limbs[n + 1 - i] * m + carry[i - 1]) \div Base
        low == [i \in 1..n |-> (limbs[i] * m + carry[n - i]) % Base]
        top == carry[n]
    IN  (IF top = 0 THEN << >>
         ELSE IF top < Base THEN <<top>>
         ELSE <<top \div Base, top % Base>>) \o low

\* a <= b, on magnitudes
LimbsLeq(a, b) ==
    \/ Len(a) < Len(b)
    \/ /\ Len(a) = Len(b)
       /\ \/ a = b
          \/ \E i \in 1..Len(a) : a[i] < b[i] /\ \A j \in 1..(i - 1) : a[j] = b[j]

\* an i64; zero has no sign
I64(neg, mag) == [neg |-> neg /\ mag # << >>, mag |-> mag]
I64_MAX == I64(FALSE, <<9, 223, 372, 36, 854, 775, 807>>)
I64_MIN == I64(TRUE, <<9, 223, 372, 36, 854, 775, 808>>)

\* n as i64 clamped to the ends of the range
as_i64_saturating(n) ==
    IF n.neg
    THEN IF LimbsLeq(n.mag, I64_MIN.mag) THEN I64(TRUE, n.mag) ELSE I64_MIN
    ELSE IF LimbsLeq(n.mag, I64_MAX.mag) THEN I64(FALSE, n.mag) ELSE I64_MAX

\* `value as i64`: the cast keeps the low 64 bits of the two's complement
\* of the integer and reads them as an i64.  The bits are 8 bytes, the
\* least significant first.
as_i64(n) ==
    LET Negate(bytes) ==
            LET carry[i \in 0..8] ==
                    IF i = 0 THEN 1 ELSE ((255 - bytes[i]) + carry[i - 1]) \div 256
            IN  [i \in 1..8 |-> ((255 - bytes[i]) + carry[i - 1]) % 256]
        divs[i \in 0..8] ==
            IF i = 0 THEN [q |-> n.mag, r |-> 0] ELSE LongDiv(divs[i - 1].q, 256)
        low == [i \in 1..8 |-> divs[i].r]
        bits == IF n.neg THEN Negate(low) ELSE low
        sign == bits[8] >= 128
        magnitude == IF sign THEN Negate(bits) ELSE bits
        limbs[i \in 0..8] ==
            IF i = 0 THEN << >> ELSE MulAdd(limbs[i - 1], 256, magnitude[9 - i])
    IN  I64(sign, limbs[8])

\* an f64: k is "finite" (mag counts halves), "decimal" (the f64 nearest to
\* the decimal text mag, a value that is not a number of halves below 2^53),
\* "nan" or "inf"
F64(k, neg, mag) == [k |-> k, neg |-> neg, mag |-> mag]
\* 2^53, the first magnitude from which not every integer is an f64
F64_EXACT == <<9, 7, 199, 254, 740, 992>>

DecimalDigits == <<"0", "1", "2", "3", "4", "5", "6", "7", "8", "9">>

RECURSIVE fmt_u64(_)
\* the decimal digits of a magnitude, by repeated division by 10
fmt_u64(limbs) ==
    IF limbs = << >> THEN << >>
    ELSE LET dm == LongDiv(limbs, 10)
         IN  Append(fmt_u64(dm.q), DecimalDigits[dm.r + 1])

\* i64::to_string
i64_to_string(n) ==
    (IF n.neg THEN <<"-">> ELSE << >>) \o
    (IF n.mag = << >> THEN <<"0">> ELSE fmt_u64(n.mag))

\* str::parse::<i64> with the limit of the positive range for both signs
str_parse_i64_symmetric(src) ==
    LET neg == src # << >> /\ Head(src) = "-"
        digits == IF src # << >> /\ Head(src) \in {"+", "-"} THEN Tail(src) ELSE src
        acc[i \in 0..Len(digits)] ==
            IF i = 0 THEN [st |-> "ok", v |-> << >>]
            ELSE LET prev == acc[i - 1]
                     next == MulAdd(prev.v, 10,
                                CHOOSE d \in 0..9 : DecimalDigits[d + 1] = digits[i])
                 IN  IF prev.st # "ok" THEN prev
                     ELSE IF \A d \in 0..9 : DecimalDigits[d + 1] # digits[i]
                          THEN [st |-> "InvalidDigit", v |-> << >>]
                     ELSE IF LimbsLeq(next, I64_MAX.mag) THEN [st |-> "ok", v |-> next]
                     ELSE [st |-> IF neg THEN "NegOverflow" ELSE "PosOverflow",
                           v |-> << >>]
    IN  IF src = << >> THEN Err("Empty")
        ELSE IF digits = << >> THEN Err("InvalidDigit")
        ELSE IF acc[Len(digits)].st # "ok" THEN Err(acc[Len(digits)].st)
        ELSE Ok(I64(neg, acc[Len(digits)].v))

\* str::parse::<i64>: an optional sign, then digits accumulated with a
\* check of the range at every digit
str_parse_i64(src) ==
    LET neg == src # << >> /\ Head(src) = "-"
        digits == IF src # << >> /\ Head(src) \in {"+", "-"} THEN Tail(src) ELSE src
        limit == IF neg THEN I64_MIN.mag ELSE I64_MAX.mag
        acc[i \in 0..Len(digits)] ==
            IF i = 0 THEN [st |-> "ok", v |-> << >>]
            ELSE LET prev == acc[i - 1]
                     next == MulAdd(prev.v, 10,
                                CHOOSE d \in 0..9 : DecimalDigits[d + 1] = digits[i])
                 IN  IF prev.st # "ok" THEN prev
                     ELSE IF \A d \in 0..9 : DecimalDigits[d + 1] # digits[i]
                          THEN [st |-> "InvalidDigit", v |-> << >>]
                     ELSE IF LimbsLeq(next, limit) THEN [st |-> "ok", v |-> next]
                     ELSE [st |-> IF neg THEN "NegOverflow" ELSE "PosOverflow",
                           v |-> << >>]
    IN  IF src = << >> THEN Err("Empty")
        ELSE IF digits = << >> THEN Err("InvalidDigit")
        ELSE IF acc[Len(digits)].st # "ok" THEN Err(acc[Len(digits)].st)
        ELSE Ok(I64(neg, acc[Len(digits)].v))

\* n as f64: the nearest f64, ties to the even significand
as_f64(n) ==
    LET fits(e) == ~LimbsLeq(F64_EXACT, LongDiv(n.mag, 2^e).q)
        \* the number of low bits the 53-bit significand cannot hold
        e == CHOOSE x \in 0..11 : fits(x) /\ \A y \in 0..(x - 1) : ~fits(y)
        dm == LongDiv(n.mag, 2^e)
        up == \/ 2 * dm.r > 2^e
              \/ 2 * dm.r = 2^e /\ LongDiv(dm.q, 2).r = 1
        sig == IF up THEN MulAdd(dm.q, 1, 1) ELSE dm.q
    IN  F64("finite", n.neg, MulAdd(MulAdd(sig, 2^e, 0), 2, 0))

\* f as i64: truncation toward zero, saturating, NaN gives 0
f64_as_i64(f) ==
    CASE f.k = "nan" -> I64(FALSE, << >>)
      [] f.k = "inf" -> IF f.neg THEN I64_MIN ELSE I64_MAX
      [] f.k = "finite" ->
            LET t == LongDiv(f.mag, 2).q
                limit == IF f.neg THEN I64_MIN.mag ELSE I64_MAX.mag
            IN  IF LimbsLeq(t, limit) THEN I64(f.neg, t) ELSE I64(f.neg, limit)

\* f64::to_string, for NaN, the infinities and the magnitudes below 2^53
f64_display(f) ==
    CASE f.k = "nan" -> <<"N", "a", "N">>
      [] f.k = "inf" -> (IF f.neg THEN <<"-">> ELSE << >>) \o <<"i", "n", "f">>
      [] f.k = "finite" /\ ~LimbsLeq(F64_EXACT, LongDiv(f.mag, 2).q) ->
            LET dm == LongDiv(f.mag, 2)
            IN  (IF f.neg THEN <<"-">> ELSE << >>) \o
                (IF dm.q = << >> THEN <<"0">> ELSE fmt_u64(dm.q)) \o
                (IF dm.r = 1 THEN <<".", "5">> ELSE << >>)

\* str::parse::<f64>: an optional sign, then digits with an optional point
\* and an optional exponent, or inf, infinity or nan in any case
str_parse_f64(src) ==
    LET neg == src # << >> /\ Head(src) = "-"
        body == IF src # << >> /\ Head(src) \in {"+", "-"} THEN Tail(src) ELSE src
        len == Len(body)
        isDigit(c) == \E d \in DOMAIN DecimalDigits : DecimalDigits[d] = c
        \* the index after the digits that start at index i
        run(i) == CHOOSE j \in i..(len + 1) :
                    /\ \A x \in i..(j - 1) : isDigit(body[x])
                    /\ j = len + 1 \/ ~isDigit(body[j])
        intEnd == run(1)
        hasPoint == intEnd <= len /\ body[intEnd] = "."
        fracStart == IF hasPoint THEN intEnd + 1 ELSE intEnd
        fracEnd == run(fracStart)
        hasExp == fracEnd <= len /\ body[fracEnd] \in {"e", "E"}
        expStart == IF ~hasExp THEN fracEnd
                    ELSE IF fracEnd + 1 <= len /\ body[fracEnd + 1] \in {"+", "-"}
                         THEN fracEnd + 2
                    ELSE fracEnd + 1
        expEnd == run(expStart)
        number == /\ (intEnd - 1) + (fracEnd - fracStart) > 0
                  /\ hasExp => expEnd > expStart
                  /\ expEnd = len + 1
        word == chars_to_string(to_lowercase(body))
        frac == SelectSeq(SubSeq(body, fracStart, fracEnd - 1), LAMBDA c : c # "0")
        whole[i \in 0..(intEnd - 1)] ==
            IF i = 0 THEN << >>
            ELSE MulAdd(whole[i - 1], 10, CHOOSE d \in 0..9 : DecimalDigits[d + 1] = body[i])
        halves == MulAdd(whole[intEnd - 1], 2, IF frac = <<"5">> THEN 1 ELSE 0)
        exact == /\ ~hasExp
                 /\ \/ frac = << >>
                    \/ frac = <<"5">> /\ body[fracStart] = "5"
                 /\ LimbsLeq(halves, F64_EXACT)
    IN  IF body = << >> THEN Err("Empty")
        ELSE IF number
             THEN IF exact THEN Ok(F64("finite", neg, halves))
                  ELSE Ok(F64("decimal", neg, body))
        ELSE IF word \in {"inf", "infinity"} THEN Ok(F64("inf", neg, << >>))
        ELSE IF word = "nan" THEN Ok(F64("nan", FALSE, << >>))
        ELSE Err("Invalid")

\* error.rs: CannotConvert
CannotConvert(from, to) == [from |-> from, to |-> to]

try_into_String(value) ==
    CASE value.tag = "None" -> Ok(<<"n", "u", "l", "l">>)
      [] value.tag = "String" -> Ok(value.s)
      [] value.tag = "Float" -> Ok(f64_display(value.h))
      [] value.tag = "Int" -> Ok(i64_to_string(value.i))
      [] value.tag = "Array" -> Err(CannotConvert("Array", "String"))
      [] value.tag = "Table" -> Err(CannotConvert("Table", "String"))
      [] value.tag = "Bool" ->
            Ok(IF value.b THEN <<"t", "r", "u", "e">> ELSE <<"f", "a", "l", "s", "e">>)

try_into_f64(value) ==
    CASE value.tag = "None" -> Ok(F64("finite", FALSE, << >>))
      [] value.tag = "String" ->
            IF str_parse_f64(value.s).r = "ok" THEN str_parse_f64(value.s)
            ELSE Err(CannotConvert("String", "Float"))
      [] value.tag = "Float" -> Ok(value.h)
      [] value.tag = "Int" -> Ok(as_f64(value.i))
      [] value.tag = "Array" -> Err(CannotConvert("Array", "Float"))
      [] value.tag = "Table" -> Err(CannotConvert("Table", "Float"))
      [] value.tag = "Bool" ->
            Ok(F64("finite", FALSE, IF value.b THEN <<2>> ELSE << >>))

try_into_i64(value) ==
    CASE value.tag = "None" -> Ok(I64(FALSE, << >>))
      [] value.tag = "String" ->
            IF str_parse_i64(value.s).r = "ok" THEN str_parse_i64(value.s)
            ELSE Err(CannotConvert("String", "Int"))
      [] value.tag = "Float" -> Ok(f64_as_i64(value.h))
      [] value.tag = "Int" -> Ok(value.i)
      [] value.tag = "Array" -> Err(CannotConvert("Array", "Int"))
      [] value.tag = "Table" -> Err(CannotConvert("Table", "Int"))
      [] value.tag = "Bool" -> Ok(I64(FALSE, IF value.b THEN <<1>> ELSE << >>))

\* TryInto<Vec<Value>> wrapping a scalar into an array of one element
try_into_Vec_wrapping(value) ==
    CASE value.tag = "None" -> Ok(<< >>)
      [] value.tag = "Array" -> Ok(value.a)
      [] value.tag = "Table" -> Err(CannotConvert("Table", "Array"))
      [] OTHER -> Ok(<<value>>)

try_into_Vec(value) ==
    CASE value.tag = "None" -> Ok(<< >>)
      [] value.tag = "String" -> Err(CannotConvert("String", "Array"))
      [] value.tag = "Float" -> Err(CannotConvert("Float", "Array"))
      [] value.tag = "Int" -> Err(CannotConvert("Int", "Array"))
      [] value.tag = "Array" -> Ok(value.a)
      [] value.tag = "Table" -> Err(CannotConvert("Table", "Array"))
      [] value.tag = "Bool" -> Err(CannotConvert("Bool", "Array"))

try_into_Map(value) ==
    CASE value.tag = "None" -> Ok(MapNew)
      [] value.tag = "String" -> Err(CannotConvert("String", "Table"))
      [] value.tag = "Float" -> Err(CannotConvert("Float", "Table"))
      [] value.tag = "Int" -> Err(CannotConvert("Int", "Table"))
      [] value.tag = "Array" -> Err(CannotConvert("Array", "Table"))
      [] value.tag = "Table" -> Ok(value.t)
      [] value.tag = "Bool" -> Err(CannotConvert("Bool", "Table"))

\* TryInto<bool> matching the string as it is written
try_into_bool_exact(value) ==
    CASE value.tag = "None" -> Ok(FALSE)
      [] value.tag = "String" ->
            Ok(chars_to_string(value.s) \in {"t", "true", "True", "1"})
      [] value.tag = "Float" -> Ok(value.h.k # "finite" \/ value.h.mag # << >>)
      [] value.tag = "Int" -> Ok(value.i.mag # << >>)
      [] value.tag = "Array" -> Err(CannotConvert("Array", "Bool"))
      [] value.tag = "Table" -> Err(CannotConvert("Table", "Bool"))
      [] value.tag = "Bool" -> Ok(value.b)

try_into_bool(value) ==
    CASE value.tag = "None" -> Ok(FALSE)
      [] value.tag = "String" ->
            Ok(chars_to_string(to_lowercase(value.s)) \in {"t", "true", "True", "1"})
      [] value.tag = "Float" -> Ok(value.h.k # "finite" \/ value.h.mag # << >>)
      [] value.tag = "Int" -> Ok(value.i.mag # << >>)
      [] value.tag = "Array" -> Err(CannotConvert("Array", "Bool"))
      [] value.tag = "Table" -> Err(CannotConvert("Table", "Bool"))
      [] value.tag = "Bool" -> Ok(value.b)

(***************************************************************************)
(* The inputs the model draws from.                                        *)
(***************************************************************************)
\* {"key": "value", "tbl": {"sub": "value"}}
FileA == File("a.json", "Json", Doc(JObject(<<
            Entry("key", JString("value")),
            Entry("tbl", JObject(<<Entry("sub", JString("value"))>>))>>)))
\* tbl: {other: true}, key: 1.5   (overlaps with a.json on both keys)
FileB == File("b.yaml", "Yaml", Doc(YHash(<<
            Entry(YString("tbl"), YHash(<<Entry(YString("other"), YBoolean(TRUE))>>)),
            Entry(YString("key"), YReal(Lit(3, TRUE)))>>)))
\* num = 5
FileC == File("c.toml", "Toml", Doc(TTable(<<Entry("num", TInteger(5))>>)))
\* (port: 8.0, name: Some("ronf"))
FileD == File("d.ron", "Ron", Doc(RMap(<<
            Entry(RString("port"), RNumber(16)),
            Entry(RString("name"), ROption(OptSome(RString("ronf"))))>>)))
\* top = 1, [sec] sub = x
FileE == File("e.ini", "Ini", Doc(<<
            IniSection(OptNone, <<Entry("top", "1")>>),
            IniSection(OptSome("sec"), <<Entry("sub", "x")>>)>>))
\* {"key8": "value}
FileBad == File("bad.json", "Json", Malformed)

\* "string_value"   (the root is not a map)
FileRoot == File("root.ron", "Ron", Doc(RString("string_value")))
\* tbl: {1: x}   (a nested key that is not a string)
FileNested == File("nested.yaml", "Yaml", Doc(YHash(<<
            Entry(YString("tbl"), YHash(<<Entry(YInteger(1), YString("x"))>>))>>)))

Sources == {FileA, FileB, FileC, FileD, FileE, FileBad, FileRoot, FileNested}
FewSources == {FileA, FileBad}

\* override documents for ConfigBuilder::load
\* {"key": "new_value", "extra": "x"}
SaveKey == File("save.json", "Json", Doc(JObject(<<
            Entry("key", JString("new_value")),
            Entry("extra", JString("x"))>>)))
\* key: {n: 1}
SaveTbl == File("save.yaml", "Yaml", Doc(YHash(<<
            Entry(YString("key"), YHash(<<Entry(YString("n"), YInteger(1))>>))>>)))
SaveEmpty == File("empty.json", "Json", EmptyContent)
SaveBad == File("bad_save.json", "Json", Malformed)

Overrides == {SaveKey, SaveTbl, SaveEmpty, SaveBad}
FewOverrides == {SaveKey, SaveEmpty}

\* documents for Config::load
\* {"key": "loaded", "late": 1}
LoadKey == File("load.json", "Json", Doc(JObject(<<
            Entry("key", JString("loaded")),
            Entry("late", JInt(1))>>)))
LoadBad == File("bad_load.json", "Json", Malformed)
LoadEmpty == File("empty.toml", "Toml", EmptyContent)

LoadDocs == {LoadKey, LoadBad, LoadEmpty, FileRoot}

\* environment variables
EnvKEY == EnvVar(<<"K", "E", "Y">>, "overwrite")
EnvKEY_SUB == EnvVar(<<"K", "E", "Y", "_", "S", "U", "B">>, "second")
Env_Key == EnvVar(<<"_", "K", "e", "y">>, "third")
Env__ == EnvVar(<<"_", "_">>, "blank")
EnvTBL == EnvVar(<<"T", "B", "L">>, "overwrite")
EnvPATH == EnvVar(<<"P", "A", "T", "H">>, "/bin")

\* environments of the process, in the order std::env::vars() yields them
Environments == {
    << >>,
    <<EnvPATH>>,
    <<EnvKEY>>,
    <<EnvPATH, Env_Key>>,
    <<EnvKEY, EnvKEY_SUB>>,
    <<EnvKEY_SUB, EnvKEY>>,
    <<Env__, EnvTBL>>,
    <<EnvTBL, EnvKEY, EnvPATH>>}
FewEnvironments == {<< >>, <<EnvKEY>>}

\* keys passed to get, and keys and values passed to set
Keys == {"key", "tbl", "new"}
SetKeys == {"key", "new"}
SetValues == {
    VNone,
    VString("another value"),
    VFloat(4),
    VTable(<<Entry("sub", VFloat(3))>>)}

\* the Values the coercions are applied to
CoerceValues ==
    {VNone, VBool(TRUE), VBool(FALSE)}
    \cup {VInt(n) : n \in {
            I64(FALSE, << >>), I64(FALSE, <<1>>), I64(TRUE, <<1>>), I64(FALSE, <<42>>),
            I64(TRUE, <<7>>), I64(FALSE, <<1, 0>>), I64(TRUE, <<12, 345, 678>>),
            I64(FALSE, <<9, 7, 199, 254, 740, 993>>), I64_MAX, I64_MIN}}
    \cup {VFloat(f) : f \in {
            F64("finite", FALSE, << >>), F64("finite", TRUE, << >>),
            F64("finite", FALSE, <<3>>), F64("finite", TRUE, <<1>>),
            F64("finite", FALSE, <<4>>), F64("finite", FALSE, <<2, 1>>),
            F64("nan", FALSE, << >>), F64("inf", FALSE, << >>), F64("inf", TRUE, << >>)}}
    \cup {VString(s) : s \in {
            << >>,
            <<"t">>,
            <<"T">>,
            <<"t", "r", "u", "e">>,
            <<"T", "R", "U", "E">>,
            <<"T", "r", "u", "e">>,
            <<"t", "R", "u", "E">>,
            <<"1">>,
            <<"0">>,
            <<"f", "a", "l", "s", "e">>,
            <<"y", "e", "s">>,
            <<"t", "r", "u", "e", " ">>,
            <<"t", "r", "u">>,
            <<"4", "2">>,
            <<"+", "7">>,
            <<"-">>,
            <<"-", "0">>,
            <<"0", "0", "7">>,
            <<"1", ".", "5">>,
            <<"2", ".", "5", "0">>,
            <<".", "5">>,
            <<"1", "e", "3">>,
            <<"1", "e">>,
            <<".">>,
            <<"a", "b", "c">>,
            <<"N", "a", "N">>,
            <<"-", "i", "n", "f">>,
            <<"I", "n", "f", "i", "n", "i", "t", "y">>,
            <<"9", "2", "2", "3", "3", "7", "2", "0", "3", "6", "8", "5", "4", "7", "7", "5", "8", "0", "8">>,
            <<"-", "9", "2", "2", "3", "3", "7", "2", "0", "3", "6", "8", "5", "4", "7", "7", "5", "8", "0", "9">>}}
    \cup {VArray(<< >>), VArray(<<VString(<<"t", "e", "s", "t">>)>>),
          VTable(MapNew), VTable(<<Entry("key", VBool(TRUE))>>)}


(***************************************************************************)
(* The state: a ConfigBuilder and the Config built from it, the process    *)
(* environment, and the last call with what it returned.                   *)
(***************************************************************************)
VARIABLES
    pc,         \* "builder", "built", "failed" (an Err ended it), "panicked";
                \* "value" where the state is a Value and its coercions
    files,      \* ConfigBuilder.files; kept after build as the sources used
    bchanges,   \* ConfigBuilder.changes
    override,   \* the file last given to ConfigBuilder::load, if any
    env,        \* the variables std::env::vars() yields, in its order
    config,     \* the Config: defaults, changes, values
    last,       \* the last call and its result
    setlog,     \* the last value passed to set, for every key
    nsets,      \* the number of calls of set
    nloads      \* the number of calls of Config::load

vars == <<pc, files, bchanges, override, env, config, last, setlog, nsets, nloads>>

\* Config::builder(), and the environment of the process
InitWith(environments) ==
    /\ pc = "builder"
    /\ files = << >>
    /\ bchanges = MapNew
    /\ override = OptNone
    /\ env \in environments
    /\ config = Config(MapNew, MapNew, MapNew)
    /\ last = [op |-> "builder"]
    /\ setlog = [k \in Keys |-> OptNone]
    /\ nsets = 0
    /\ nloads = 0

\* ConfigBuilder::add_file
AddFile(pool) ==
    /\ pc = "builder"
    /\ Len(files) < MaxFiles
    /\ \E file \in pool :
        /\ files' = Append(files, file)
        /\ last' = [op |-> "add_file"]
    /\ UNCHANGED <<pc, bchanges, override, env, config, setlog, nsets, nloads>>

\* ConfigBuilder::load
BuilderLoad(pool) ==
    /\ pc = "builder"
    /\ \E file \in pool :
        LET loaded == load_map(file.content, file.format)
        IN  /\ last' = [op |-> "builder_load", res |-> loaded]
            /\ override' = OptSome(file)
            /\ IF loaded.r = "ok"
               THEN bchanges' = loaded.val /\ pc' = pc
               ELSE bchanges' = bchanges /\
                    pc' = IF loaded.r = "err" THEN "failed" ELSE "panicked"
    /\ UNCHANGED <<files, env, config, setlog, nsets, nloads>>

\* ConfigBuilder::build
Build ==
    /\ pc = "builder"
    /\ LET built == build(files, bchanges, env)
       IN  /\ last' = [op |-> "build", r |-> built.r,
                       msg |-> IF built.r = "err" THEN built.msg ELSE << >>]
           /\ IF built.r = "ok"
              THEN config' = built.val /\ pc' = "built"
              ELSE config' = config /\
                   pc' = IF built.r = "err" THEN "failed" ELSE "panicked"
    /\ UNCHANGED <<files, bchanges, override, env, setlog, nsets, nloads>>

\* Config::get
Get ==
    /\ pc = "built"
    /\ \E key \in Keys : last' = [op |-> "get", key |-> key, res |-> get(config, key)]
    /\ UNCHANGED <<pc, files, bchanges, override, env, config, setlog, nsets, nloads>>

\* Config::set
Set ==
    /\ pc = "built"
    /\ nsets < MaxSets
    /\ \E key \in SetKeys, value \in SetValues :
        /\ config' = set(config, key, value)
        /\ last' = [op |-> "set", key |-> key, value |-> value]
        /\ setlog' = [setlog EXCEPT ![key] = OptSome(value)]
    /\ nsets' = nsets + 1
    /\ UNCHANGED <<pc, files, bchanges, override, env, nloads>>

\* Config::list
List ==
    /\ pc = "built"
    /\ last' = [op |-> "list", res |-> list(config)]
    /\ UNCHANGED <<pc, files, bchanges, override, env, config, setlog, nsets, nloads>>

\* Config::load
Load ==
    /\ pc = "built"
    /\ nloads < MaxLoads
    /\ \E file \in LoadDocs :
        LET loaded == load(config, file)
        IN  /\ last' = [op |-> "load", file |-> file, r |-> loaded.r]
            /\ config' = IF loaded.r = "ok" THEN loaded.val ELSE config
            /\ pc' = IF loaded.r = "panic" THEN "panicked" ELSE pc
    /\ nloads' = nloads + 1
    /\ UNCHANGED <<files, bchanges, override, env, setlog, nsets>>

\* Config::save
Save ==
    /\ pc = "built"
    /\ \E format \in FileFormat :
        LET saved == save(config, format)
        IN  /\ last' = [op |-> "save", format |-> format, res |-> saved]
            /\ pc' = IF saved.r = "panic" THEN "panicked" ELSE pc
    /\ UNCHANGED <<files, bchanges, override, env, config, setlog, nsets, nloads>>

(***************************************************************************)
(* Spec: a builder and the whole life of the Config built from it.         *)
(***************************************************************************)
Init == InitWith(FewEnvironments)

Next ==
    \/ AddFile(FewSources)
    \/ BuilderLoad(FewOverrides)
    \/ Build
    \/ Get
    \/ Set
    \/ List
    \/ Load
    \/ Save

Spec == Init /\ [][Next]_vars

(***************************************************************************)
(* SpecBuild: construction from every source, override document and        *)
(* environment, and get on the Config built.                               *)
(***************************************************************************)
InitBuild == InitWith(Environments)

NextBuild ==
    \/ AddFile(Sources)
    \/ BuilderLoad(Overrides)
    \/ Build
    \/ Get

SpecBuild == InitBuild /\ [][NextBuild]_vars

(***************************************************************************)
(* SpecCoerce: a Value, the coercions applied to it, and the Value made of *)
(* the String a coercion returned.  last holds the Value at hand or the    *)
(* call of try_into that consumed it.                                      *)
(***************************************************************************)
InitCoerce ==
    /\ pc = "value"
    /\ files = << >>
    /\ bchanges = MapNew
    /\ override = OptNone
    /\ env = << >>
    /\ config = Config(MapNew, MapNew, MapNew)
    /\ \E value \in CoerceValues :
            last = [op |-> "value", value |-> value, origin |-> OptNone]
    /\ setlog = [k \in Keys |-> OptNone]
    /\ nsets = 0
    /\ nloads = 0

\* Value::try_into, for the six targets by the name CannotConvert gives them
TryInto ==
    /\ pc = "value"
    /\ last.op = "value"
    /\ \E to \in {"String", "Float", "Int", "Bool", "Array", "Table"} :
            last' = [op |-> "try_into", from |-> last.value, origin |-> last.origin,
                     to |-> to,
                     res |-> CASE to = "String" -> try_into_String(last.value)
                               [] to = "Float" -> try_into_f64(last.value)
                               [] to = "Int" -> try_into_i64(last.value)
                               [] to = "Bool" -> try_into_bool(last.value)
                               [] to = "Array" -> try_into_Vec(last.value)
                               [] to = "Table" -> try_into_Map(last.value)]
    /\ UNCHANGED <<pc, files, bchanges, override, env, config, setlog, nsets, nloads>>

\* From<String> for Value, of the String a coercion returned
FromString ==
    /\ pc = "value"
    /\ last.op = "try_into" /\ last.to = "String" /\ last.res.r = "ok"
    /\ ~last.origin.some
    /\ last' = [op |-> "value", value |-> VString(last.res.val),
                origin |-> OptSome(last.from)]
    /\ UNCHANGED <<pc, files, bchanges, override, env, config, setlog, nsets, nloads>>

NextCoerce ==
    \/ TryInto
    \/ FromString

SpecCoerce == InitCoerce /\ [][NextCoerce]_vars

(***************************************************************************)
(* SpecList: construction from sources that share keys, with an override   *)
(* document and a matching environment variable, then set and list.        *)
(***************************************************************************)
NextList ==
    \/ AddFile({FileA, FileB, FileC})
    \/ BuilderLoad({SaveKey})
    \/ Build
    \/ Set
    \/ List

SpecList == InitWith({<<EnvKEY>>}) /\ [][NextList]_vars

(***************************************************************************)
(* SpecFrom: an integer of a type wider than i64, the Value made of it,    *)
(* and the coercions applied to that Value.                                *)
(***************************************************************************)
\* the integers are records of their type ty (u64, u128 or i128), their sign
\* and their magnitude
InitFrom ==
    /\ pc = "value"
    /\ files = << >>
    /\ bchanges = MapNew
    /\ override = OptNone
    /\ env = << >>
    /\ config = Config(MapNew, MapNew, MapNew)
    /\ last \in {[op |-> "integer", integer |-> n] : n \in {
            [ty |-> "u64", neg |-> FALSE, mag |-> << >>],
            [ty |-> "u64", neg |-> FALSE, mag |-> <<42>>],
            [ty |-> "u64", neg |-> FALSE, mag |-> <<9, 223, 372, 36, 854, 775, 807>>],
            [ty |-> "u64", neg |-> FALSE, mag |-> <<9, 223, 372, 36, 854, 775, 808>>],
            [ty |-> "u64", neg |-> FALSE, mag |-> <<9, 223, 372, 36, 854, 775, 809>>],
            [ty |-> "u64", neg |-> FALSE, mag |-> <<18, 446, 744, 73, 709, 551, 574>>],
            [ty |-> "u64", neg |-> FALSE, mag |-> <<18, 446, 744, 73, 709, 551, 615>>],
            [ty |-> "u128", neg |-> FALSE, mag |-> <<7>>],
            [ty |-> "u128", neg |-> FALSE, mag |-> <<9, 223, 372, 36, 854, 775, 808>>],
            [ty |-> "u128", neg |-> FALSE, mag |-> <<18, 446, 744, 73, 709, 551, 615>>],
            [ty |-> "u128", neg |-> FALSE, mag |-> <<18, 446, 744, 73, 709, 551, 616>>],
            [ty |-> "u128", neg |-> FALSE, mag |-> <<18, 446, 744, 73, 709, 551, 621>>],
            [ty |-> "u128", neg |-> FALSE, mag |-> <<27, 670, 116, 110, 564, 327, 423>>],
            [ty |-> "u128", neg |-> FALSE, mag |-> <<27, 670, 116, 110, 564, 327, 424>>],
            [ty |-> "u128", neg |-> FALSE, mag |-> <<55, 340, 232, 221, 128, 654, 971>>],
            [ty |-> "u128", neg |-> FALSE, mag |-> <<170, 141, 183, 460, 469, 231, 731, 687, 303, 715, 884, 105, 728>>],
            [ty |-> "u128", neg |-> FALSE, mag |-> <<340, 282, 366, 920, 938, 463, 463, 374, 607, 431, 768, 211, 455>>],
            [ty |-> "i128", neg |-> TRUE, mag |-> <<1>>],
            [ty |-> "i128", neg |-> TRUE, mag |-> <<42>>],
            [ty |-> "i128", neg |-> TRUE, mag |-> <<9, 223, 372, 36, 854, 775, 808>>],
            [ty |-> "i128", neg |-> TRUE, mag |-> <<9, 223, 372, 36, 854, 775, 809>>],
            [ty |-> "i128", neg |-> FALSE, mag |-> <<9, 223, 372, 36, 854, 775, 808>>],
            [ty |-> "i128", neg |-> TRUE, mag |-> <<18, 446, 744, 73, 709, 551, 615>>],
            [ty |-> "i128", neg |-> TRUE, mag |-> <<18, 446, 744, 73, 709, 551, 616>>],
            [ty |-> "i128", neg |-> TRUE, mag |-> <<18, 446, 744, 73, 709, 551, 617>>],
            [ty |-> "i128", neg |-> TRUE, mag |-> <<27, 670, 116, 110, 564, 327, 424>>],
            [ty |-> "i128", neg |-> TRUE, mag |-> <<27, 670, 116, 110, 564, 327, 425>>],
            [ty |-> "i128", neg |-> FALSE, mag |-> <<170, 141, 183, 460, 469, 231, 731, 687, 303, 715, 884, 105, 727>>],
            [ty |-> "i128", neg |-> TRUE, mag |-> <<170, 141, 183, 460, 469, 231, 731, 687, 303, 715, 884, 105, 728>>],
            [ty |-> "u128", neg |-> FALSE, mag |-> <<123, 456, 789, 12, 345, 678, 901, 234, 567, 890>>],
            [ty |-> "i128", neg |-> TRUE, mag |-> <<98, 765, 432, 109, 876, 543, 210, 987, 654, 321>>]}}
    /\ setlog = [k \in Keys |-> OptNone]
    /\ nsets = 0
    /\ nloads = 0

\* From<u64>, From<u128> and From<i128> for Value
FromInteger ==
    /\ pc = "value"
    /\ last.op = "integer"
    /\ last' = [op |-> "value", value |-> VInt(as_i64(last.integer)),
                origin |-> OptNone, integer |-> last.integer]
    /\ UNCHANGED <<pc, files, bchanges, override, env, config, setlog, nsets, nloads>>

NextFrom ==
    \/ FromInteger
    \/ TryInto

SpecFrom == InitFrom /\ [][NextFrom]_vars

(***************************************************************************)
(* Notions the properties use.                                             *)
(***************************************************************************)
\* the key an environment variable addresses, if its name has a segment
EnvKey(name) ==
    LET key_parts == retain_non_empty(split(to_lowercase(name), << >>, << >>))
    IN  IF key_parts = << >> THEN OptNone ELSE OptSome(chars_to_string(key_parts[1]))

\* the variables of env that address key
Addressing(key) == {i \in DOMAIN env : EnvKey(env[i].name) = OptSome(key)}

\* no variable of env addresses a key of m
NoEnvMatch(m) == \A k \in MapKeys(m) : Addressing(k) = {}

\* every key the inputs of the model mention
AllKeys ==
    Keys \cup MapKeys(config.defaults) \cup MapKeys(config.changes)
         \cup MapKeys(config.values) \cup MapKeys(bchanges)

\* the Config is as build returned it
FreshlyBuilt == pc = "built" /\ nsets = 0 /\ nloads = 0

(***************************************************************************)
(* C1: on a built Config, right after set(k, v) the call get(k) returns v, *)
(* whether or not k is a key of defaults and whatever calls came before.   *)
(***************************************************************************)
C1_SetThenGet ==
    (pc = "built" /\ last.op = "set") =>
        get(config, last.key) = OptSome(last.value)

\* set of a key that defaults does not have, after a load
C1_Witness ==
    /\ pc = "built"
    /\ last.op = "set"
    /\ ~contains_key(config.defaults, last.key)
    /\ config.defaults # MapNew
    /\ nloads > 0

(***************************************************************************)
(* C2: after build with an override document and no matching environment   *)
(* variable, get(k) is the value of the override document if k is in both   *)
(* defaults and the override document, the value of defaults if k is only   *)
(* in defaults, and absent if k is not in defaults.                         *)
(***************************************************************************)
C2_OverrideIffInDefaults ==
    (FreshlyBuilt /\ override.some /\ NoEnvMatch(config.defaults)) =>
        \A k \in AllKeys :
            get(config, k) =
                IF contains_key(config.defaults, k)
                THEN IF contains_key(bchanges, k)
                     THEN MapGet(bchanges, k)
                     ELSE MapGet(config.defaults, k)
                ELSE OptNone

\* the override document has a key of defaults and a key defaults lacks, and
\* defaults has a key the override document lacks
C2_Witness ==
    /\ FreshlyBuilt /\ override.some /\ NoEnvMatch(config.defaults)
    /\ env # << >>
    /\ MapKeys(bchanges) \cap MapKeys(config.defaults) # {}
    /\ MapKeys(bchanges) \ MapKeys(config.defaults) # {}
    /\ MapKeys(config.defaults) \ MapKeys(bchanges) # {}

(***************************************************************************)
(* C3: after build with an override document, the changes of the Config    *)
(* are the decoded override document, keys absent from defaults included,  *)
(* so that save right after build writes every key of the document.        *)
(***************************************************************************)
C3_ChangesAreOverride ==
    (FreshlyBuilt /\ override.some) =>
        /\ config.changes = bchanges
        /\ save(config, "Json") = json_serialize(bchanges)

(***************************************************************************)
(* C4: save round trip.  A is built from the sources and changed by set    *)
(* calls only; B is built from the same sources with A.save(f) as its      *)
(* override document and no environment overlay.                           *)
(***************************************************************************)
\* the formats with an encoder and a decoder
SaveFormats == {"Json", "Yaml", "Toml", "Ron"}

\* the result of building B, or the Err or panic that keeps B from being built
Reloaded(format) ==
    LET saved == save(config, format)
    IN  IF saved.r # "ok" THEN saved
        ELSE LET loaded == load_map(saved.val, format)
             IN  IF loaded.r # "ok" THEN loaded
                 ELSE build(files, loaded.val, << >>)

OnlySets == pc = "built" /\ ~override.some /\ nloads = 0

RECURSIVE whole_floats_as_int(_)
\* the value with every Float without fractional part replaced by the Int
whole_floats_as_int(value) ==
    CASE value.tag = "Float" ->
            IF value.h % 2 = 0 THEN VInt(value.h \div 2) ELSE value
      [] value.tag = "Array" ->
            VArray([i \in DOMAIN value.a |-> whole_floats_as_int(value.a[i])])
      [] value.tag = "Table" ->
            VTable([i \in DOMAIN value.t |->
                Entry(value.t[i].k, whole_floats_as_int(value.t[i].v))])
      [] OTHER -> value

Decoded(i) == parse(files[i]).val

\* the last source that defines key k
LastDefining(k) ==
    CHOOSE i \in DOMAIN files :
        /\ contains_key(Decoded(i), k)
        /\ \A j \in DOMAIN files : j > i => ~contains_key(Decoded(j), k)

C5_LaterSourceWins ==
    pc = "built" =>
        /\ \A k \in MapKeys(config.defaults) :
                MapGet(config.defaults, k) = MapGet(Decoded(LastDefining(k)), k)
        /\ Len(files) = 2 =>
                LET swapped == build(<<files[2], files[1]>>, bchanges, env).val.defaults
                IN  \A k \in MapKeys(Decoded(1)) \cap MapKeys(Decoded(2)) :
                        MapGet(Decoded(1), k) # MapGet(Decoded(2), k) =>
                            /\ MapGet(swapped, k) = MapGet(Decoded(1), k)
                            /\ MapGet(swapped, k) # MapGet(config.defaults, k)

\* two sources give the same key tables with different keys
C5_Witness ==
    /\ pc = "built"
    /\ Len(files) = 2
    /\ \E k \in MapKeys(Decoded(1)) \cap MapKeys(Decoded(2)) :
            /\ is_table(MapGet(Decoded(1), k).v)
            /\ is_table(MapGet(Decoded(2), k).v)
            /\ MapKeys(MapGet(Decoded(1), k).v.t) # MapKeys(MapGet(Decoded(2), k).v.t)

(***************************************************************************)
(* C6: for sources with pairwise distinct top-level keys, no override      *)
(* document and no matching environment variable, get(k) is the decoded    *)
(* value for every key of every source and absent for every other key.     *)
(***************************************************************************)
DistinctKeys ==
    \A i, j \in DOMAIN files :
        i # j => MapKeys(Decoded(i)) \cap MapKeys(Decoded(j)) = {}

SourceKeys == UNION {MapKeys(Decoded(i)) : i \in DOMAIN files}

C6_UnionOfSources ==
    (FreshlyBuilt /\ ~override.some /\ DistinctKeys /\ NoEnvMatch(config.defaults)) =>
        \A k \in AllKeys \cup SourceKeys :
            get(config, k) =
                IF k \in SourceKeys
                THEN MapGet(Decoded(CHOOSE i \in DOMAIN files : contains_key(Decoded(i), k)), k)
                ELSE OptNone

\* two sources with keys of their own, and an environment
C6_Witness ==
    /\ FreshlyBuilt /\ ~override.some /\ DistinctKeys /\ NoEnvMatch(config.defaults)
    /\ Len(files) = 2
    /\ Decoded(1) # MapNew /\ Decoded(2) # MapNew
    /\ env # << >>

(***************************************************************************)
(* C7: build returns Ok iff every added source decodes; if a source fails  *)
(* to decode, build returns an error that names the source by its path and *)
(* carries the parse error, and no Config is produced.                     *)
(***************************************************************************)
C7_BuildOkIffAllDecode ==
    last.op = "build" =>
        LET failing == {i \in DOMAIN files : parse(files[i]).r # "ok"}
        IN  /\ last.r = "ok" <=> failing = {}
            /\ failing # {} =>
                /\ last.r = "err"
                /\ \E i \in failing :
                        /\ parse(files[i]).r = "err"
                        /\ last.msg = <<"Failed to parse file ", files[i].path, ": ">>
                                        \o parse(files[i]).msg
                /\ pc # "built"
                /\ config = Config(MapNew, MapNew, MapNew)

(***************************************************************************)
(* C8: with the environment overlay, a variable whose lower-cased name is  *)
(* a top-level key k of the resolved values, values[k] not a Table, makes  *)
(* get(k) after build the String of the variable's raw value, whatever     *)
(* variant values[k] had.                                                  *)
(***************************************************************************)
\* values before the environment overlay
Resolved == apply_changes(config.defaults, bchanges)

\* a key of the resolved values that holds no table
Overwritable(k) == contains_key(Resolved, k) /\ ~is_table(MapGet(Resolved, k).v)

\* the lower-cased name of a variable
LowerName(i) == chars_to_string(to_lowercase(env[i].name))

\* C8 as claimed: the value of every variable whose name matches is returned
C8_EnvValueWritten ==
    FreshlyBuilt =>
        \A i \in DOMAIN env :
            Overwritable(LowerName(i)) =>
                get(config, LowerName(i)) = OptSome(VString(env[i].value))

\* the variable enumerated last among those that address k
LastAddressing(k) == CHOOSE i \in Addressing(k) : \A j \in Addressing(k) : j <= i

\* C8 as amended: get(k) is the String of the raw value of the variable
\* enumerated last among those whose first non-empty segment is k
C8_LastEnvValueWritten ==
    FreshlyBuilt =>
        \A k \in MapKeys(Resolved) :
            (Overwritable(k) /\ Addressing(k) # {}) =>
                get(config, k) = OptSome(VString(env[LastAddressing(k)].value))

\* two variables address a key that held a value other than a String
C8_Witness ==
    /\ FreshlyBuilt
    /\ \E k \in MapKeys(Resolved) :
            /\ Overwritable(k)
            /\ MapGet(Resolved, k).v.tag # "String"
            /\ Cardinality(Addressing(k)) = 2
            /\ \E i \in Addressing(k) : LowerName(i) = k

(***************************************************************************)
(* C9: with the environment overlay, a top-level key whose resolved value   *)
(* is a Table is left unchanged: get(k) after build returns the table, for  *)
(* every environment variable that addresses it.                            *)
(***************************************************************************)
C9_TableUnchanged ==
    FreshlyBuilt =>
        \A k \in MapKeys(Resolved) :
            is_table(MapGet(Resolved, k).v) => get(config, k) = MapGet(Resolved, k)

\* a variable addresses a key that holds a table
C9_Witness ==
    /\ FreshlyBuilt
    /\ \E k \in MapKeys(Resolved) :
            /\ is_table(MapGet(Resolved, k).v)
            /\ Addressing(k) # {}

(***************************************************************************)
(* C10: save writes changes, not values: after build without an override   *)
(* document and then set calls only, the text save returns has exactly the  *)
(* keys that were set, each with its last set value; no key that only       *)
(* defaults defines, no value of the environment overlay.                   *)
(***************************************************************************)
\* the top-level entries of a text that save returned
SavedEntries(content, format) ==
    CASE content.c = "empty" -> << >>
      [] format \in {"Json", "Toml"} -> content.root.o
      [] format \in {"Yaml", "Ron"} ->
            [i \in DOMAIN content.root.o |->
                Entry(content.root.o[i].k.s, content.root.o[i].v)]

\* what the format writes for a value
Encoded(value, format) ==
    CASE format = "Json" -> to_json_value_single(value)
      [] format = "Yaml" -> yaml_dump(to_yaml_value_single(value))
      [] format = "Toml" -> to_toml_value(value)
      [] format = "Ron" -> to_ron_value(value)

C10_SaveWritesSetKeys ==
    (last.op = "save" /\ last.res.r = "ok" /\ ~override.some /\ nloads = 0) =>
        LET saved == SavedEntries(last.res.val, last.format)
        IN  /\ {saved[i].k : i \in DOMAIN saved} = {k \in Keys : setlog[k].some}
            /\ \A i \in DOMAIN saved :
                    saved[i].v = Encoded(setlog[saved[i].k].v, last.format)

\* one key was set twice, the environment overlay wrote another key, and
\* save returned a text
C10_Witness ==
    /\ last.op = "save" /\ last.res.r = "ok" /\ ~override.some /\ nloads = 0
    /\ nsets = 2
    /\ Cardinality({k \in Keys : setlog[k].some}) = 1
    /\ \E k \in MapKeys(config.values) :
            /\ ~setlog[k].some
            /\ get(config, k) # MapGet(config.defaults, k)

(***************************************************************************)
(* C11: in every state of a built Config, after build with any override    *)
(* document and environment and any set and load calls, every key of       *)
(* values is a key of defaults or a key passed to an earlier set; neither  *)
(* the override document nor the environment overlay nor a loaded document *)
(* introduces a key into values.                                           *)
(***************************************************************************)
C11_ValuesKeysFromDefaultsOrSet ==
    pc = "built" =>
        \A k \in MapKeys(config.values) :
            contains_key(config.defaults, k) \/ (k \in Keys /\ setlog[k].some)

\* the override document, a loaded document and the environment each name a
\* key that defaults lacks; only the key that was set is readable
C11_Witness ==
    /\ pc = "built"
    /\ contains_key(bchanges, "extra") /\ ~contains_key(config.defaults, "extra")
    /\ contains_key(config.changes, "late") /\ ~contains_key(config.defaults, "late")
    /\ Addressing("key") # {} /\ ~contains_key(config.defaults, "key")
    /\ setlog["new"].some
    /\ MapKeys(config.values) = {"new"}

(***************************************************************************)
(* C12: when Config::load is given a document that does not decode, it     *)
(* returns an error and defaults, changes and values are what they were    *)
(* before the call.                                                        *)
(***************************************************************************)
C12_FailedLoadKeepsState ==
    [][(last'.op = "load" /\ nloads' # nloads /\ parse(last'.file).r # "ok") =>
            (last'.r = "err" /\ config' = config)]_vars

(***************************************************************************)
(* C13: after a successful Config::load, values is recomputed from         *)
(* defaults and the updated changes alone: get(k) is changes[k] for a key  *)
(* of both, defaults[k] for a key of defaults only, and absent otherwise;  *)
(* what the environment overlay wrote at build time is not kept.           *)
(***************************************************************************)
C13_LoadRecomputesValues ==
    (last.op = "load" /\ last.r = "ok") =>
        \A k \in AllKeys :
            get(config, k) =
                IF contains_key(config.defaults, k)
                THEN IF contains_key(config.changes, k)
                     THEN MapGet(config.changes, k)
                     ELSE MapGet(config.defaults, k)
                ELSE OptNone

\* a variable of the environment addresses a key of defaults that changes
\* does not hold, and after the load the key reads as defaults has it; a key
\* that was set and is not in defaults is no longer readable
C13_Witness ==
    /\ last.op = "load" /\ last.r = "ok"
    /\ \E k \in MapKeys(config.defaults) :
            /\ Addressing(k) # {}
            /\ ~is_table(MapGet(config.defaults, k).v)
            /\ ~contains_key(config.changes, k)
            /\ get(config, k) = MapGet(config.defaults, k)
    /\ \E k \in MapKeys(config.changes) : ~contains_key(config.values, k)

(***************************************************************************)
(* C14: decoding never faults: for every content of a source or override   *)
(* document and every format, build, ConfigBuilder::load and Config::load  *)
(* (and File::parse, which they call) return Ok or Err and never panic.    *)
(***************************************************************************)
C14_DecodingNeverFaults ==
    /\ last.op = "build" => last.r # "panic"
    /\ last.op = "builder_load" => last.res.r # "panic"
    /\ last.op = "load" => last.r # "panic"

(***************************************************************************)
(* C15: save never faults: for every changes map set can produce and every *)
(* format, save returns Ok(text) or Err(reason) and never panics.          *)
(***************************************************************************)
C15_SaveNeverFaults ==
    last.op = "save" => last.res.r # "panic"

(***************************************************************************)
(* C16: an override document with empty content is rejected with an error  *)
(* on both loading paths, ConfigBuilder::load before build and             *)
(* Config::load after it, and the builder or Config is not updated by it.  *)
(***************************************************************************)
C16_EmptyOverrideRejected ==
    [][/\ (last'.op = "builder_load" /\ override'.v.content = EmptyContent) =>
            (last'.res.r = "err" /\ bchanges' = bchanges)
       /\ (last'.op = "load" /\ nloads' # nloads /\ last'.file.content = EmptyContent) =>
            (last'.r = "err" /\ config' = config)]_vars

(***************************************************************************)
(* C17: save for INI, a format with a decoder and no encoder, returns the  *)
(* error "Serializing INI format is not supported" for every changes map,  *)
(* which is not the error of a format that is not compiled in, and the     *)
(* Config is unchanged.                                                    *)
(***************************************************************************)
C17_IniSaveUnsupported ==
    [][(last'.op = "save" /\ last'.format = "Ini") =>
            /\ last'.res = Err(<<"Serializing INI format is not supported">>)
            /\ last'.res # ini_not_enabled
            /\ config' = config]_vars

\* save(Ini) was called on a Config whose changes hold a key
C17_Witness ==
    /\ last.op = "save" /\ last.format = "Ini" /\ last.res.r = "err"
    /\ config.changes # MapNew

(***************************************************************************)
(* C18: a coercion succeeds or fails as the coercion matrix says, for      *)
(* every source variant and the six targets: None converts to every        *)
(* target ("null", 0.0, 0, false, [], {}); Array and Table convert only to *)
(* themselves; Bool, Int, Float and String never convert to Array or       *)
(* Table and, but for a String that does not parse as the number asked     *)
(* for, convert to every other target; every failure is a CannotConvert    *)
(* whose from names the source variant and whose to names the target.      *)
(***************************************************************************)
C18_CoercionMatrix ==
    last.op = "try_into" =>
        LET from == last.from.tag
            to == last.to
            res == last.res
            fail == res = Err(CannotConvert(from, to))
            text == IF from = "String" THEN chars_to_string(last.from.s) ELSE ""
        IN  CASE from = "None" ->
                    res = Ok(CASE to = "String" -> <<"n", "u", "l", "l">>
                               [] to = "Float" -> F64("finite", FALSE, << >>)
                               [] to = "Int" -> I64(FALSE, << >>)
                               [] to = "Bool" -> FALSE
                               [] to = "Array" -> << >>
                               [] to = "Table" -> MapNew)
              [] from = "Array" -> IF to = "Array" THEN res = Ok(last.from.a) ELSE fail
              [] from = "Table" -> IF to = "Table" THEN res = Ok(last.from.t) ELSE fail
              [] to \in {"Array", "Table"} -> fail
              [] from = "String" /\ to \in {"Float", "Int"} ->
                    /\ res.r = "ok" \/ fail
                    /\ text \in {"42", "+7", "007"} => res.r = "ok"
                    /\ text \in {"", "-", "abc", "true", "1e"} => fail
                    /\ text \in {"1.5", ".5", "1e3", "NaN"} => (res.r = "ok" <=> to = "Float")
              [] OTHER -> res.r = "ok"

\* a scalar was asked for as a Table, and a String that is no number as Int
C18_Witness ==
    /\ last.op = "try_into"
    /\ \/ last.from.tag = "Bool" /\ last.to = "Table"
       \/ last.from = VString(<<"a", "b", "c">>) /\ last.to = "Int"
    /\ last.res.r = "err"

(***************************************************************************)
(* C19: coercion round trip: converting Int(n) to String and the String    *)
(* made of the result to Int gives n, for every i64 n; converting Bool(b)  *)
(* to String and the String made of the result to Bool gives b.            *)
(***************************************************************************)
C19_StringRoundTrip ==
    (last.op = "try_into" /\ last.origin.some) =>
        /\ (last.origin.v.tag = "Int" /\ last.to = "Int") => last.res = Ok(last.origin.v.i)
        /\ (last.origin.v.tag = "Bool" /\ last.to = "Bool") => last.res = Ok(last.origin.v.b)

\* the least i64 went to its String and back
C19_Witness ==
    /\ last.op = "try_into"
    /\ last.origin = OptSome(VInt(I64_MIN))
    /\ Len(last.from.s) = 20
    /\ last.to = "Int"
    /\ last.res = Ok(I64_MIN)

(***************************************************************************)
(* C20: the coercion of String(s) to Bool never fails: it returns true     *)
(* exactly when s is "t", "true" or "1" written in any case, and false for *)
(* every other string.                                                     *)
(***************************************************************************)
C20_StringToBool ==
    (last.op = "try_into" /\ last.from.tag = "String" /\ last.to = "Bool") =>
        LET s == last.from.s
            Cases(c) == CASE c = "t" -> {"t", "T"}
                          [] c = "r" -> {"r", "R"}
                          [] c = "u" -> {"u", "U"}
                          [] c = "e" -> {"e", "E"}
                          [] c = "1" -> {"1"}
            Spells(w) == Len(s) = Len(w) /\ \A i \in 1..Len(w) : s[i] \in Cases(w[i])
        IN  last.res = Ok(\/ Spells(<<"t">>)
                          \/ Spells(<<"t", "r", "u", "e">>)
                          \/ Spells(<<"1">>))

\* a String in upper case gave true
C20_Witness ==
    /\ last.op = "try_into" /\ last.to = "Bool"
    /\ last.from = VString(<<"T", "R", "U", "E">>)
    /\ last.res = Ok(TRUE)

(***************************************************************************)
(* C21: list returns the keys of values, each once, in insertion order:    *)
(* after build the keys stand in the order of their first occurrence       *)
(* across the sources in add_file order, whatever a later source, the      *)
(* override document or the environment overwrote; set of a key that       *)
(* values has keeps the order, and set of a new key appends it.            *)
(***************************************************************************)
\* the first source that defines key k, and the place of k in it
FirstDefining(k) == CHOOSE i \in DOMAIN files :
    /\ contains_key(Decoded(i), k)
    /\ \A j \in DOMAIN files : j < i => ~contains_key(Decoded(j), k)
PlaceInSource(k) == IndexOf(Decoded(FirstDefining(k)), k)

\* key a occurs in the sources before key b does
OccursBefore(a, b) ==
    \/ FirstDefining(a) < FirstDefining(b)
    \/ FirstDefining(a) = FirstDefining(b) /\ PlaceInSource(a) < PlaceInSource(b)

C21_ListInsertionOrder ==
    [][/\ (pc = "builder" /\ pc' = "built") =>
            LET keys == list(config')
            IN  /\ {keys[p] : p \in DOMAIN keys} = SourceKeys
                /\ \A p, q \in DOMAIN keys : p < q => OccursBefore(keys[p], keys[q])
       /\ last'.op = "set" =>
            list(config') = IF \E p \in DOMAIN list(config) : list(config)[p] = last'.key
                            THEN list(config)
                            ELSE Append(list(config), last'.key)
       /\ last'.op = "list" =>
            /\ {last'.res[p] : p \in DOMAIN last'.res} = MapKeys(config.values)
            /\ Len(last'.res) = Cardinality(MapKeys(config.values))
            /\ last'.res = list(config')]_vars

\* list after two sources that name the same keys in different orders, with
\* the override document and the environment overwriting a key, and after
\* set of a key of defaults and of a new key
C21_Witness ==
    /\ pc = "built"
    /\ last.op = "list"
    /\ files = <<FileB, FileA>>
    /\ override = OptSome(SaveKey)
    /\ setlog["key"].some /\ setlog["new"].some
    /\ last.res = <<"tbl", "key", "new">>
    /\ get(config, "key") # MapGet(config.defaults, "key")

(***************************************************************************)
(* C22: resolution is deterministic: a build of the same sources, the same *)
(* override document and the same environment, taken as a mapping from     *)
(* variable name to value, resolves the same values in whatever order the  *)
(* environment variables are enumerated.                                   *)
(***************************************************************************)
\* the enumerations of the environment: the same variables in every order
Enumerations ==
    {[i \in DOMAIN env |-> env[order[i]]] :
        order \in {f \in [DOMAIN env -> DOMAIN env] :
                        \A i, j \in DOMAIN env : f[i] = f[j] => i = j}}

C22_BuildIgnoresEnvOrder ==
    FreshlyBuilt =>
        \A enumeration \in Enumerations :
            build(files, bchanges, enumeration) = Ok(config)

(***************************************************************************)
(* C23: defaults is immutable once built: no call of set, Config::load     *)
(* (successful or failed), save, get or list changes defaults; and         *)
(* set(k, v) changes only the entry k of changes and the entry k of        *)
(* values, every other entry of both maps staying as it was.               *)
(***************************************************************************)
\* Maps a and b hold the same entry, or both none, for every key but k
SameBut(a, b, k) ==
    \A other \in (MapKeys(a) \cup MapKeys(b)) \ {k} : MapGet(a, other) = MapGet(b, other)

C23_DefaultsImmutable ==
    [][pc = "built" =>
        /\ config'.defaults = config.defaults
        /\ last'.op = "set" =>
                /\ SameBut(config'.changes, config.changes, last'.key)
                /\ SameBut(config'.values, config.values, last'.key)
                /\ MapGet(config'.changes, last'.key) = OptSome(last'.value)
                /\ MapGet(config'.values, last'.key) = OptSome(last'.value)]_vars

\* after a load that succeeded and set of a key of defaults to another value,
\* defaults still holds what the source gave
C23_Witness ==
    /\ pc = "built"
    /\ last.op = "set" /\ last.key = "key"
    /\ nloads = 1
    /\ contains_key(config.changes, "late")
    /\ files = <<FileA>>
    /\ MapGet(config.defaults, "key") = MapGet(Decoded(1), "key")
    /\ MapGet(config.values, "key") # MapGet(config.defaults, "key")

(***************************************************************************)
(* C24: the environment overlay addresses a key by the first non-empty     *)
(* underscore-separated segment of the lower-cased variable name only: a   *)
(* variable such as KEY_SUB=x or _KEY=x acts exactly as a variable named   *)
(* by that segment alone, writing String("x") to a key that holds no       *)
(* table; a variable whose name has no non-empty segment, or whose first   *)
(* segment is not a key of values, changes nothing.                        *)
(***************************************************************************)
\* the first non-empty segment of the lower-cased name, as a name
FirstSegment(name) == retain_non_empty(split(to_lowercase(name), << >>, << >>))[1]

\* the environment with the i-th variable named by its first segment alone
NamedBySegment(i) ==
    [env EXCEPT ![i] = EnvVar(FirstSegment(env[i].name), env[i].value)]

\* the environment without its i-th variable
Without(i) == SubSeq(env, 1, i - 1) \o SubSeq(env, i + 1, Len(env))

C24_EnvAddressesFirstSegment ==
    FreshlyBuilt =>
        /\ \A i \in DOMAIN env :
                IF EnvKey(env[i].name).some /\ contains_key(Resolved, EnvKey(env[i].name).v)
                THEN build(files, bchanges, NamedBySegment(i)) = Ok(config)
                ELSE build(files, bchanges, Without(i)) = Ok(config)
        /\ \A k \in AllKeys :
                get(config, k) =
                    IF Overwritable(k) /\ Addressing(k) # {}
                    THEN OptSome(VString(env[LastAddressing(k)].value))
                    ELSE MapGet(Resolved, k)

\* _Key=third overwrites key, and PATH, whose segment is no key, changes
\* nothing
C24_Witness ==
    /\ FreshlyBuilt
    /\ Overwritable("key")
    /\ env = <<EnvPATH, Env_Key>>
    /\ EnvKey(EnvPATH.name) = OptSome("path")
    /\ get(config, "key") = OptSome(VString("third"))
    /\ get(config, "tbl") = MapGet(Resolved, "tbl")
    /\ get(config, "path") = OptNone

(***************************************************************************)
(* C25: the environment overlay is applied after the override document:    *)
(* when a key of defaults that holds no table is given a value by the      *)
(* override document and by a matching environment variable, get(k) after  *)
(* build returns the String of the environment value; and when the         *)
(* override document gives the key a Table, the environment variable no    *)
(* longer overwrites it.                                                   *)
(***************************************************************************)
C25_EnvAfterOverride ==
    FreshlyBuilt =>
        \A k \in MapKeys(config.defaults) \cap MapKeys(bchanges) :
            (~is_table(MapGet(config.defaults, k).v) /\ Addressing(k) # {}) =>
                get(config, k) =
                    IF is_table(MapGet(bchanges, k).v)
                    THEN MapGet(bchanges, k)
                    ELSE OptSome(VString(env[LastAddressing(k)].value))

\* the override document and KEY=overwrite both give a value to key
C25_Witness ==
    /\ FreshlyBuilt
    /\ override = OptSome(SaveKey)
    /\ env = <<EnvKEY>>
    /\ MapGet(config.defaults, "key") = OptSome(VString("value"))
    /\ MapGet(bchanges, "key") = OptSome(VString("new_value"))
    /\ get(config, "key") = OptSome(VString("overwrite"))

(***************************************************************************)
(* C26: a key that defaults lacks and that set introduced is no longer     *)
(* readable after a later successful Config::load: get returns absence and *)
(* list omits the key, while changes still holds it and save still emits   *)
(* it; a key of defaults that was set keeps its set value unless the       *)
(* loaded document overrides it.                                           *)
(***************************************************************************)
\* what changes holds for key k after the load: the entry of the loaded
\* document, or else the value that was set (that of an earlier loaded
\* document, if one came between)
Kept(k) ==
    LET loaded == parse(last.file).val
    IN  IF contains_key(loaded, k) THEN MapGet(loaded, k)
        ELSE IF nloads = 1 THEN setlog[k]
        ELSE MapGet(config.changes, k)

C26_SetKeyUnreadableAfterLoad ==
    (last.op = "load" /\ last.r = "ok") =>
        LET saved == save(config, "Json")
        IN  \A k \in {key \in Keys : setlog[key].some} :
                IF contains_key(config.defaults, k)
                THEN get(config, k) = Kept(k)
                ELSE /\ get(config, k) = OptNone
                     /\ \A p \in DOMAIN list(config) : list(config)[p] # k
                     /\ MapGet(config.changes, k) = Kept(k)
                     /\ saved.r = "ok"
                     /\ MapGet(SavedEntries(saved.val, "Json"), k) =
                            OptSome(Encoded(Kept(k).v, "Json"))

\* new, which defaults lacks, and key, which the loaded document names, were
\* both set before the load
C26_Witness ==
    /\ last.op = "load" /\ last.r = "ok" /\ last.file = LoadKey
    /\ setlog["new"].some /\ setlog["key"].some
    /\ contains_key(config.defaults, "key") /\ ~contains_key(config.defaults, "new")
    /\ get(config, "new") = OptNone
    /\ MapGet(config.changes, "new") = setlog["new"]
    /\ get(config, "key") = OptSome(VString("loaded"))

C28_ChangesAgreeWithValues ==
    pc = "built" =>
        \A k \in MapKeys(config.changes) \cap MapKeys(config.values) :
            MapGet(config.values, k) = MapGet(config.changes, k)

\* built with an override document and a variable of the environment that
\* both name key, then set and loaded: changes and values share a key that
\* defaults holds with another value, and changes has keys of its own
C28_Witness ==
    /\ pc = "built"
    /\ override = OptSome(SaveKey) /\ env = <<EnvKEY>>
    /\ nsets > 0 /\ nloads > 0
    /\ \E k \in MapKeys(config.changes) \cap MapKeys(config.values) :
            /\ contains_key(config.defaults, k)
            /\ MapGet(config.values, k) # MapGet(config.defaults, k)
    /\ MapKeys(config.changes) \ MapKeys(config.values) # {}

(***************************************************************************)
(* C29: no operation removes a key of defaults from the readable state: in *)
(* every state of a built Config every key of defaults is a key of values, *)
(* so get is never absent for a key of defaults, after any set and load.   *)
(***************************************************************************)
C29_DefaultKeysReadable ==
    pc = "built" =>
        /\ MapKeys(config.defaults) \subseteq MapKeys(config.values)
        /\ \A k \in MapKeys(config.defaults) : get(config, k).some
        /\ (last.op = "get" /\ contains_key(config.defaults, last.key)) => last.res.some

\* get of a key of defaults that no change names, after set and a load that
\* succeeded
C29_Witness ==
    /\ pc = "built"
    /\ nsets > 0 /\ nloads > 0
    /\ last.op = "get" /\ last.res.some
    /\ contains_key(config.defaults, last.key)
    /\ ~contains_key(config.changes, last.key)
    /\ config.changes # MapNew

(***************************************************************************)
(* C30: converting an integer wider than the 64-bit signed range into a    *)
(* Value wraps instead of failing: Value::from(n) for a u64, u128 or i128  *)
(* n is Int(n) when n fits in i64 and else Int of n reduced modulo 2^64    *)
(* into the signed range, so that a u64 above i64::MAX becomes negative;   *)
(* no error is reported.                                                   *)
(***************************************************************************)
\* a + b, on magnitudes
LimbsAdd(a, b) ==
    LET n == IF Len(a) > Len(b) THEN Len(a) ELSE Len(b)
        \* the i-th limb from the right, 0 where the magnitude has ended
        At(m, i) == IF i <= Len(m) THEN m[Len(m) + 1 - i] ELSE 0
        carry[i \in 0..n] ==
            IF i = 0 THEN 0 ELSE (At(a, i) + At(b, i) + carry[i - 1]) \div Base
        low == [i \in 1..n |-> (At(a, n + 1 - i) + At(b, n + 1 - i) + carry[n - i]) % Base]
    IN  (IF carry[n] = 0 THEN << >> ELSE <<carry[n]>>) \o low

\* the magnitude modulo 2^64, by four divisions by 2^16
Mod2_64(mag) ==
    LET divs[i \in 0..4] ==
            IF i = 0 THEN [q |-> mag, r |-> 0] ELSE LongDiv(divs[i - 1].q, 65536)
        sum[i \in 0..4] ==
            IF i = 0 THEN << >> ELSE MulAdd(sum[i - 1], 65536, divs[5 - i].r)
    IN  sum[4]

\* n lies in the range of i64
FitsI64(n) ==
    IF n.neg THEN LimbsLeq(n.mag, I64_MIN.mag) ELSE LimbsLeq(n.mag, I64_MAX.mag)

\* n and m differ by a multiple of 2^64
Congruent2_64(n, m) ==
    IF n.neg = m.neg
    THEN Mod2_64(n.mag) = Mod2_64(m.mag)
    ELSE Mod2_64(LimbsAdd(n.mag, m.mag)) = << >>

C30_WideIntegersWrap ==
    (last.op = "value" /\ pc = "value" /\ ~last.origin.some /\ "integer" \in DOMAIN last) =>
        /\ last.value.tag = "Int"
        /\ FitsI64(last.value.i)
        /\ Congruent2_64(last.integer, last.value.i)
        /\ FitsI64(last.integer) =>
                last.value = VInt(I64(last.integer.neg, last.integer.mag))
        /\ (last.integer.ty = "u64" /\ ~FitsI64(last.integer)) => last.value.i.neg

\* u64::MAX becomes Int(-1)
C30_Witness ==
    /\ last.op = "value" /\ pc = "value" /\ "integer" \in DOMAIN last
    /\ last.integer = [ty |-> "u64", neg |-> FALSE, mag |-> <<18, 446, 744, 73, 709, 551, 615>>]
    /\ last.value = VInt(I64(TRUE, <<1>>))

====
